---------------------------- MODULE Spec2Model ----------------------------
(***************************************************************************)
(* A model of the tag catalogue of backend-common (src/src/tags):          *)
(*   handler.rs  Flag, VisibleTag, to_named_flags, from_named_flags        *)
(*   bots.rs     LOADED_BOT_TAGS, get_bot_tags, set_bot_tags, BotTags      *)
(*   packs.rs    LOADED_PACK_TAGS, get_pack_tags, set_pack_tags, PackTags  *)
(*                                                                         *)
(* Spec follows publishers and a reader through the steps of their calls  *)
(* on one of the two stores (the stores share no state; `entity` is the    *)
(* one the behaviour follows).  get_or_init is once_cell's blocking        *)
(* initialisation: one caller runs ArcSwap::default, callers arriving      *)
(* meanwhile wait.  ArcSwap's load and store are single atomic steps.      *)
(* SpecCodec applies to_named_flags / from_named_flags to drawn inputs.    *)
(*                                                                         *)
(* Strings are TLA+ strings drawn from a finite universe; String's Ord     *)
(* (byte-wise lexicographic) is the order of StrOrder.  BigInt values are  *)
(* naturals (the catalogue's bit weights are non-negative) with the        *)
(* bitwise operators computed bit by bit.                                  *)
(***************************************************************************)
EXTENDS Integers, Sequences, FiniteSets, TLC

(***************************************************************************)
(* Bounds of the model.                                                    *)
(***************************************************************************)
\* Largest bit weight a descriptor of the codec specification carries.
MaxWeight == 4
\* Largest bitmask handed to to_named_flags (above every owned bit).
MaxMask == 15
\* Longest name sequence handed to from_named_flags.
MaxNamed == 2

(***************************************************************************)
(* Strings.                                                                *)
(***************************************************************************)
\* The strings of the model in String's Ord order: byte-wise, so every
\* upper-case ASCII letter sorts before every lower-case one.
StrOrder ==
    << "Cheese", "Hello", "Moderation", "Music", "Utility",
       "cheese", "hello", "moderation", "music", "utility" >>

\* Position of a string in StrOrder.
StrRank(s) == CHOOSE i \in 1..Len(StrOrder) : StrOrder[i] = s

\* a < b for Strings.
StrLess(a, b) == StrRank(a) < StrRank(b)

(***************************************************************************)
(* handler.rs                                                              *)
(***************************************************************************)
\* struct VisibleTag { name, category }
VisibleTag(name, category) == [name |-> name, category |-> category]

\* struct Flag { flag, category, depreciated }
Flag(flag, category, depreciated) ==
    [flag |-> flag, category |-> category, depreciated |-> depreciated]

\* BTreeMap::default(): the map with no key.
EmptyRegistry == [k \in {} |-> Flag(0, "", FALSE)]

\* BigInt & BigInt on non-negative values.
RECURSIVE BitAnd(_, _)
BitAnd(a, b) ==
    IF a = 0 \/ b = 0 THEN 0
    ELSE (a % 2) * (b % 2) + 2 * BitAnd(a \div 2, b \div 2)

\* BigInt | BigInt on non-negative values.
RECURSIVE BitOr(_, _)
BitOr(a, b) ==
    IF a = 0 THEN b
    ELSE IF b = 0 THEN a
    ELSE (IF a % 2 = 1 \/ b % 2 = 1 THEN 1 ELSE 0)
         + 2 * BitOr(a \div 2, b \div 2)

\* Iteration of a BTreeMap<String, Flag>: its keys in ascending String order.
BTreeKeys(lookup) == SelectSeq(StrOrder, LAMBDA s : s \in DOMAIN lookup)

\* A to_named_flags whose test forgets the depreciated field.
to_named_flags_keeps_depreciated(flags, lookup) ==
    LET keys == BTreeKeys(lookup)
        RECURSIVE Loop(_, _)
        Loop(i, named) ==
            IF i > Len(keys) THEN named
            ELSE LET key == keys[i]
                     value == lookup[key]
                 IN  Loop(i + 1,
                          IF BitAnd(flags, value.flag) # 0
                          THEN Append(named, VisibleTag(key, value.category))
                          ELSE named)
    IN  Loop(1, <<>>)

\* A to_named_flags that tests the bitmask for equality with the bit weight
\* (flags == value.flag) instead of a non-zero intersection.
to_named_flags_exact_weight(flags, lookup) ==
    LET keys == BTreeKeys(lookup)
        RECURSIVE Loop(_, _)
        Loop(i, named) ==
            IF i > Len(keys) THEN named
            ELSE LET key == keys[i]
                     value == lookup[key]
                 IN  Loop(i + 1,
                          IF ~value.depreciated /\ flags = value.flag
                          THEN Append(named, VisibleTag(key, value.category))
                          ELSE named)
    IN  Loop(1, <<>>)

\* pub fn to_named_flags(flags: &BigInt, lookup: &BTreeMap<String, Flag>)
to_named_flags(flags, lookup) ==
    LET keys == BTreeKeys(lookup)
        RECURSIVE Loop(_, _)
        Loop(i, named) ==
            IF i > Len(keys) THEN named
            ELSE LET key == keys[i]
                     value == lookup[key]
                 IN  Loop(i + 1,
                          IF ~value.depreciated /\ BitAnd(flags, value.flag) # 0
                          THEN Append(named, VisibleTag(key, value.category))
                          ELSE named)
    IN  Loop(1, <<>>)

\* A from_named_flags that ORs the weight of every key it finds, deprecated
\* or not.
from_named_flags_keeps_depreciated(named, lookup) ==
    LET RECURSIVE Loop(_, _)
        Loop(i, flags) ==
            IF i > Len(named) THEN flags
            ELSE Loop(i + 1,
                      IF named[i] \in DOMAIN lookup
                      THEN BitOr(flags, lookup[named[i]].flag)
                      ELSE flags)
    IN  Loop(1, 0)

\* A from_named_flags that assigns the weight (flags = ...) instead of ORing.
from_named_flags_assigns(named, lookup) ==
    LET RECURSIVE Loop(_, _)
        Loop(i, flags) ==
            IF i > Len(named) THEN flags
            ELSE Loop(i + 1,
                      IF named[i] \in DOMAIN lookup
                         /\ ~lookup[named[i]].depreciated
                      THEN lookup[named[i]].flag
                      ELSE flags)
    IN  Loop(1, 0)

\* pub fn from_named_flags(named: impl Iterator<Item = &String>, lookup)
from_named_flags(named, lookup) ==
    LET RECURSIVE Loop(_, _)
        Loop(i, flags) ==
            IF i > Len(named) THEN flags
            ELSE Loop(i + 1,
                      IF named[i] \in DOMAIN lookup
                         /\ ~lookup[named[i]].depreciated
                      THEN BitOr(flags, lookup[named[i]].flag)
                      ELSE flags)
    IN  Loop(1, 0)

(***************************************************************************)
(* Case conversions of the strings of the model.                           *)
(***************************************************************************)
\* Inflector::to_title_case on the strings of the model: the first letter of
\* a word upper-cased, the rest lower-cased, and a new word begun (after a
\* space) at an upper-case letter that follows a lower-case one
\* ("fooBar" gives "Foo Bar").
ToTitleCase(s) ==
    CASE s = "cheese" -> "Cheese"
      [] s = "muSic" -> "Mu Sic"
      [] s = "hello" -> "Hello"
      [] s = "moderation" -> "Moderation"
      [] s = "music" -> "Music"
      [] s = "utility" -> "Utility"
      [] OTHER -> s

\* str::to_lowercase on the strings of the model.
ToLowercase(s) ==
    CASE s = "Cheese" -> "cheese"
      [] s = "muSic" -> "music"
      [] s = "Mu Sic" -> "mu sic"
      [] s = "Hello" -> "hello"
      [] s = "Moderation" -> "moderation"
      [] s = "Music" -> "music"
      [] s = "Utility" -> "utility"
      [] OTHER -> s

(***************************************************************************)
(* The processes and the inputs they draw.                                 *)
(***************************************************************************)
\* Calls of set_bot_tags / set_pack_tags made in one behaviour.
MaxPublish == 2
\* Longest JSON array handed to BotTags::parse_from_json.
MaxFlags == 2

\* The two stores: LOADED_BOT_TAGS and LOADED_PACK_TAGS.
Kinds == {"bot", "pack"}

Publishers == {"w1", "w2"}
Readers == {"r1"}
Procs == Publishers \cup Readers

\* Registries handed to set_bot_tags (keys in title case).
BotRegA ==
    [k \in {"Moderation", "Music", "Utility"} |->
        CASE k = "Music" -> Flag(1, "General", FALSE)
          [] k = "Moderation" -> Flag(2, "General", FALSE)
          [] OTHER -> Flag(4, "General", FALSE)]

BotRegB ==
    [k \in {"Hello", "Music"} |->
        CASE k = "Music" -> Flag(1, "Fun", FALSE)
          [] OTHER -> Flag(8, "Fun", TRUE)]

\* The Flag of packs.rs: a descriptor that also carries a display name.
PackFlag(flag, display_name, category, depreciated) ==
    [flag |-> flag, display_name |-> display_name, category |-> category,
     depreciated |-> depreciated]

\* The VisibleTag of packs.rs: { name, display_name, category }.
PackVisibleTag(name, display_name, category) ==
    [name |-> name, display_name |-> display_name, category |-> category]

\* Registries handed to set_pack_tags (keys in lower case).
PackRegA ==
    [k \in {"music", "utility"} |->
        CASE k = "music" -> PackFlag(1, "Music", "General", FALSE)
          [] OTHER -> PackFlag(4, "Utility", "General", FALSE)]

PackRegB ==
    [k \in {"hello", "music"} |->
        CASE k = "music" -> PackFlag(1, "Music", "Fun", FALSE)
          [] OTHER -> PackFlag(8, "Hello", "Fun", TRUE)]

Registries(k) == IF k = "bot" THEN {BotRegA, BotRegB} ELSE {PackRegA, PackRegB}

\* Candidate tag names of a request.
Candidates == {"music", "Hello", "cheese", "muSic"}

\* Tag names read back from a storage column.
Persisted == {"Music", "Hello", "Cheese"}

\* Sequences over S of length at most n.
SeqsUpTo(S, n) == UNION {[1..m -> S] : m \in 0..n}

\* Option<serde_json::Value>: absent, or a JSON value.
Json(t, s, items) == [t |-> t, s |-> s, items |-> items]
JsonAbsent == Json("absent", "", <<>>)
JsonNull == Json("null", "", <<>>)
JsonNumber == Json("number", "", <<>>)
JsonObject == Json("object", "", <<>>)
JsonString(s) == Json("string", s, <<>>)
JsonArray(items) == Json("array", "", items)

\* A JSON array whose items are not strings, such as [1].
JsonNumbers == Json("array of numbers", "", <<>>)

\* The values handed to BotTags::parse_from_json.
BotJsonInputs ==
    {JsonAbsent, JsonNull, JsonObject, JsonString("music"), JsonNumbers}
    \cup {JsonArray(items) : items \in SeqsUpTo(Candidates, MaxFlags)}

\* The values handed to PackTags::parse_from_json.
PackJsonInputs ==
    {JsonAbsent, JsonNull, JsonNumber, JsonArray(<< "music" >>)}
    \cup {JsonString(s) : s \in Candidates}

\* &[String] and String arguments.
Slice(items) == [t |-> "slice", s |-> "", items |-> items]
Str(s) == [t |-> "String", s |-> s, items |-> <<>>]

\* The contents of a set column, in some order: no item twice.
SetColumns(S, n) ==
    {items \in SeqsUpTo(S, n) :
        \A i, j \in 1..Len(items) : i # j => items[i] # items[j]}

\* The slices handed to BotTags::from_raw (the names of a set<text> column)
\* and the strings handed to PackTags::from_raw.
BotRawInputs == {Slice(items) : items \in SetColumns(Persisted, MaxFlags)}
PackRawInputs == {Str(s) : s \in {"music", "Music", "hello", "cheese"}}

\* scylla's CqlValue: Int, Text(s) or Set(items).
Cql(t, s, items) == [t |-> t, s |-> s, items |-> items]
CqlInt == Cql("Int", "", <<>>)
CqlText(s) == Cql("Text", s, <<>>)
CqlSet(items) == Cql("Set", "", items)

\* CqlValue::as_text: Some(s) of a Text, None otherwise (an Option as a
\* sequence of at most one element).
as_text(v) == IF v.t = "Text" THEN << v.s >> ELSE <<>>

\* The column values handed to BotTags::from_cql and PackTags::from_cql.
CqlItems == {CqlText("Music"), CqlText("Hello"), CqlText("Cheese"), CqlInt}
BotCqlInputs ==
    {CqlInt, CqlText("Music")}
    \cup {CqlSet(items) : items \in SetColumns(CqlItems, MaxFlags)}
PackCqlInputs == {CqlInt} \cup {CqlText(s) : s \in {"Music", "hello", "cheese"}}

\* What a serde Deserializer hands over: null, one tag, or a sequence of tags.
Serde(t, items) == [t |-> t, s |-> "", items |-> items]
SerdeNull == Serde("serde null", <<>>)
SerdeObject(tag) == Serde("serde object", << tag >>)
SerdeArray(tags) == Serde("serde array", tags)

\* The payloads handed to BotTags::deserialize and PackTags::deserialize.
BotSerdeInputs ==
    { SerdeNull,
      SerdeArray(<<>>),
      SerdeArray(<< VisibleTag("Cheese", "Fun") >>),
      SerdeArray(<< VisibleTag("Music", "General"), VisibleTag("Music", "General") >>) }
PackSerdeInputs ==
    { SerdeNull,
      SerdeObject(PackVisibleTag("cheese", "Cheese", "Fun")),
      SerdeArray(<< PackVisibleTag("music", "Music", "General"),
                    PackVisibleTag("hello", "Hello", "Fun") >>) }

\* ParseResult<Self>: Ok(Self { inner }) or Err(ParseError::custom(..)).
NoResult == [tag |-> "None", error |-> "", value |-> "", inner |-> <<>>]
Ok(inner) == [tag |-> "Ok", error |-> "", value |-> "", inner |-> inner]
Err(error, value) == [tag |-> "Err", error |-> error, value |-> value, inner |-> <<>>]

VARIABLES
    entity,     \* the entity kind whose calls the behaviour follows
    cellState,  \* per store, the OnceCell: "uninit", "initializing" or "ready"
    swap,       \* per store, the registry the ArcSwap points to
    history,    \* per store, the registries given to completed stores, in order
    pc,         \* per process, its position
    kind,       \* per process, the store its current call addresses
    pend,       \* per publisher, the `lookup` argument of its call
    op,         \* per reader, the operation of its call
    input,      \* per reader, the argument of its call
    snap,       \* per reader, the Guard `tags` it loaded
    idx,        \* per reader, the position of the for loop in `flags`
    inner,      \* per reader, the local Vec `inner`
    result,     \* per reader, what its last call returned
    loadIdx,    \* per reader, the number of stores completed when it loaded
    lookups,    \* per reader, the registry that answered each lookup of the call
    calls,      \* the calls of set_*_tags started so far
    cLookup,    \* codec: the registry handed to the codec functions
    cOp,        \* codec: the last function applied
    cFlags,     \* codec: the bitmask handed to to_named_flags
    cNamed,     \* codec: the names handed to from_named_flags
    cTags,      \* codec: what to_named_flags returned
    cEncoded,   \* codec: what from_named_flags returned
    tOp,        \* types: the function applied
    tIn,        \* types: its arguments
    tOut        \* types: what it returned

storeVars ==
    << entity, cellState, swap, history, pc, kind, pend, op, input, snap, idx, inner,
       result, loadIdx, lookups, calls >>
codecVars == << cLookup, cOp, cFlags, cNamed, cTags, cEncoded >>
typeVars == << tOp, tIn, tOut >>
pureVars == << codecVars, typeVars >>
vars == << storeVars, codecVars, typeVars >>

(***************************************************************************)
(* bots.rs / packs.rs: the stores.                                         *)
(***************************************************************************)
\* An ArcSwap::default that starts from a built-in catalogue.
ArcSwapDefaultBuiltin == BotRegA

\* ArcSwap::default: an Arc of BTreeMap::default().
ArcSwapDefault == EmptyRegistry

\* A store that extends the live map in place (BTreeMap::extend) instead of
\* swapping the pointer.
ArcSwapStoreExtends(old, new) ==
    [k \in DOMAIN old \cup DOMAIN new |-> IF k \in DOMAIN new THEN new[k] ELSE old[k]]

\* A store that keeps the first registry published (OnceCell::set).
ArcSwapStoreFirstWins(old, new) == IF old = EmptyRegistry THEN new ELSE old

\* swap.store(Arc::new(lookup)): the value the ArcSwap points to afterwards.
ArcSwapStore(old, new) == new

\* lookup.load(): the registry of the Guard it returns.
ArcSwapLoad(current) == current

\* Where a process continues once it holds the &'static ArcSwap.
AfterCell(p) == IF p \in Publishers THEN "store" ELSE "load"

\* A store behind a RwLock: it waits for the readers holding a guard.
StoreWaitsForGuards(p) == {r \in Readers : pc[r] = "lookup" /\ kind[r] = kind[p]}

\* The readers swap.store waits for: none (ArcSwap pays the debts of the
\* guards still held itself).
StoreWaitsFor(p) == {}

\* The publishers lookup.load() waits for: none.
LoadWaitsFor(r) == {}

\* A lookup that loads the store again (get_bot_tags().load().get(..)).
TagsReloaded(r) == swap[kind[r]]

\* `tags`: the Guard the call loaded once, which answers every lookup.
Tags(r) == snap[r]

\* A loop body that skips an unknown name instead of returning the error.
bot_parse_step_lenient(tags, flag, acc) ==
    LET flag_name == ToTitleCase(flag)
    IN  IF flag_name \in DOMAIN tags
        THEN [ret |-> FALSE, result |-> NoResult,
              inner |-> Append(acc, VisibleTag(flag_name, tags[flag_name].category))]
        ELSE [ret |-> FALSE, result |-> NoResult, inner |-> acc]

\* A loop body that puts the tag in front of the ones collected so far
\* (inner.insert(0, visible)).
bot_parse_step_prepends(tags, flag, acc) ==
    LET flag_name == ToTitleCase(flag)
    IN  IF flag_name \in DOMAIN tags
        THEN [ret |-> FALSE, result |-> NoResult,
              inner |-> << VisibleTag(flag_name, tags[flag_name].category) >> \o acc]
        ELSE [ret |-> TRUE, result |-> Err("Unknown tag", flag_name), inner |-> acc]

\* A loop body that looks the candidate up as it was supplied, without
\* to_title_case.
bot_parse_step_exact(tags, flag, acc) ==
    IF flag \in DOMAIN tags
    THEN [ret |-> FALSE, result |-> NoResult,
          inner |-> Append(acc, VisibleTag(flag, tags[flag].category))]
    ELSE [ret |-> TRUE, result |-> Err("Unknown tag", flag), inner |-> acc]

\* The body of `for flag_name in flags` of BotTags::parse_from_json.
bot_parse_step(tags, flag, acc) ==
    LET flag_name == ToTitleCase(flag)
    IN  IF flag_name \in DOMAIN tags
        THEN [ret |-> FALSE, result |-> NoResult,
              inner |-> Append(acc, VisibleTag(flag_name, tags[flag_name].category))]
        ELSE [ret |-> TRUE, result |-> Err("Unknown tag", flag_name), inner |-> acc]

\* A from_value that reads a value of another shape as an empty list
\* (unwrap_or_default).
from_value_or_default(val) ==
    [ok |-> TRUE, flags |-> IF val.t = "array" THEN val.items ELSE <<>>]

\* serde_json::from_value::<Vec<String>>(val): the strings of an array of
\* strings, an error for every other value.
from_value(val) ==
    IF val.t = "array"
    THEN [ok |-> TRUE, flags |-> val.items]
    ELSE [ok |-> FALSE, flags |-> <<>>]

\* filter_valid_tags(names, lookup): the lenient policy. Every name that is
\* a key of the registry becomes a VisibleTag with the category of its
\* descriptor, in the order of the names; the other names are dropped.
filter_valid_tags(names, lookup) ==
    LET RECURSIVE Loop(_, _)
        Loop(i, acc) ==
            IF i > Len(names) THEN acc
            ELSE Loop(i + 1,
                      IF names[i] \in DOMAIN lookup
                      THEN Append(acc, VisibleTag(names[i], lookup[names[i]].category))
                      ELSE acc)
    IN  Loop(1, <<>>)

\* A from_raw that fails on a name without a descriptor, as parse_from_json
\* does.
bot_from_raw_strict(flags, tags) ==
    LET bad == {i \in 1..Len(flags) : flags[i] \notin DOMAIN tags}
    IN  IF bad = {}
        THEN Ok(filter_valid_tags(flags, tags))
        ELSE Err("Unknown tag", flags[CHOOSE i \in bad : \A j \in bad : i <= j])

\* BotTags::from_raw(flags) once the Guard `tags` is loaded.
bot_from_raw(flags, tags) == Ok(filter_valid_tags(flags, tags))

\* values.iter().filter_map(|v| v.as_text()): the texts of the items, in order.
text_items(values) ==
    LET RECURSIVE Loop(_, _)
        Loop(i, acc) ==
            IF i > Len(values) THEN acc
            ELSE Loop(i + 1, acc \o as_text(values[i]))
    IN  Loop(1, <<>>)

\* A from_cql that fails the row on a name without a descriptor.
bot_from_cql_strict(values, tags) ==
    LET names == text_items(values)
        bad == {i \in 1..Len(names) : names[i] \notin DOMAIN tags}
    IN  IF bad = {}
        THEN Ok(filter_valid_tags(names, tags))
        ELSE Err("Unknown tag", names[CHOOSE i \in bad : \A j \in bad : i <= j])

\* BotTags::from_cql(CqlValue::Set(values)) once the Guard `tags` is loaded.
bot_from_cql(values, tags) == Ok(filter_valid_tags(text_items(values), tags))

\* get_tag(tag, tags): the descriptor of the key that equals the candidate
\* up to letter case (the first one in key order), or None (an Option as a
\* sequence of at most one element).
get_tag(tag, tags) ==
    LET hits == {k \in DOMAIN tags : ToLowercase(k) = ToLowercase(tag)}
    IN  IF hits = {}
        THEN <<>>
        ELSE << tags[CHOOSE k \in hits : \A j \in hits : k = j \/ StrLess(k, j)] >>

\* A from_raw that reports a name without a descriptor as an error.
pack_from_raw_strict(tag, tags) ==
    LET found == get_tag(tag, tags)
    IN  IF found # <<>>
        THEN Ok(<< PackVisibleTag(tag, found[1].display_name, "") >>)
        ELSE Err("Unknown tag", tag)

\* PackTags::from_raw(tag) once the Guard `tags` is loaded.
pack_from_raw(tag, tags) ==
    LET found == get_tag(tag, tags)
    IN  IF found # <<>>
        THEN Ok(<< PackVisibleTag(tag, found[1].display_name, "") >>)
        ELSE Ok(<<>>)

\* <BotTags as Deserialize>::deserialize: the Vec<VisibleTag> of the
\* payload becomes `inner` as it is.
bot_deserialize(payload) ==
    IF payload.t = "serde array"
    THEN Ok(payload.items)
    ELSE Err("invalid type", payload.t)

\* A PackTags::deserialize that reads a sequence, as BotTags::deserialize
\* does.
pack_deserialize_vec(payload) ==
    IF payload.t = "serde null"
    THEN Ok(<<>>)
    ELSE Ok(payload.items)

\* <PackTags as Deserialize>::deserialize: the Option<VisibleTag> of the
\* payload becomes `inner` as it is.
pack_deserialize(payload) ==
    IF payload.t = "serde null"
    THEN Ok(<<>>)
    ELSE IF payload.t = "serde object"
    THEN Ok(payload.items)
    ELSE Err("invalid type", payload.t)

\* The state after construction: both OnceCells unset, every process idle.
InitStore ==
    /\ entity \in Kinds
    /\ cellState = [k \in Kinds |-> "uninit"]
    /\ swap = [k \in Kinds |-> EmptyRegistry]
    /\ history = [k \in Kinds |-> <<>>]
    /\ pc = [p \in Procs |-> "idle"]
    /\ kind = [p \in Procs |-> "bot"]
    /\ pend = [p \in Publishers |-> EmptyRegistry]
    /\ op = [r \in Readers |-> "default"]
    /\ input = [r \in Readers |-> JsonAbsent]
    /\ snap = [r \in Readers |-> EmptyRegistry]
    /\ idx = [r \in Readers |-> 1]
    /\ inner = [r \in Readers |-> <<>>]
    /\ result = [r \in Readers |-> NoResult]
    /\ loadIdx = [r \in Readers |-> -1]
    /\ lookups = [r \in Readers |-> <<>>]
    /\ calls = 0

InitCodec ==
    /\ cLookup = EmptyRegistry
    /\ cOp = "none"
    /\ cFlags = 0
    /\ cNamed = <<>>
    /\ cTags = <<>>
    /\ cEncoded = 0

\* No function of src/types applied yet.
InitTypes ==
    /\ tOp = "none"
    /\ tIn = [t |-> "none"]
    /\ tOut = [tag |-> "None"]

Init == InitStore /\ InitCodec /\ InitTypes

\* set_bot_tags(lookup) / set_pack_tags(lookup) is called.
SetTags(p) ==
    /\ p \in Publishers
    /\ pc[p] = "idle"
    /\ calls < MaxPublish
    /\ \E reg \in Registries(entity) :
          /\ kind' = [kind EXCEPT ![p] = entity]
          /\ pend' = [pend EXCEPT ![p] = reg]
    /\ pc' = [pc EXCEPT ![p] = "get_or_init"]
    /\ calls' = calls + 1
    /\ UNCHANGED << entity, op, cellState, swap, history, input, snap, idx, inner, result,
                    loadIdx, lookups, pureVars >>

\* LOADED_*_TAGS.get_or_init(ArcSwap::default), entered: the caller becomes
\* the initialiser of an unset cell, passes a set one, and waits while
\* another thread initialises it.
\* An initialisation that is not once-only: every caller that finds no
\* initialiser at work runs the initialiser, also on a cell that is set.
GetOrInitEveryCaller(p) ==
    /\ pc[p] = "get_or_init"
    /\ cellState[kind[p]] # "initializing"
    /\ cellState' = [cellState EXCEPT ![kind[p]] = "initializing"]
    /\ pc' = [pc EXCEPT ![p] = "init"]
    /\ UNCHANGED << entity, op, swap, history, kind, pend, input, snap, idx, inner,
                    result, loadIdx, lookups, calls, pureVars >>

GetOrInit(p) ==
    /\ pc[p] = "get_or_init"
    /\ cellState[kind[p]] # "initializing"
    /\ IF cellState[kind[p]] = "uninit"
       THEN /\ cellState' = [cellState EXCEPT ![kind[p]] = "initializing"]
            /\ pc' = [pc EXCEPT ![p] = "init"]
       ELSE /\ pc' = [pc EXCEPT ![p] = AfterCell(p)]
            /\ UNCHANGED cellState
    /\ UNCHANGED << entity, op, swap, history, kind, pend, input, snap, idx, inner,
                    result, loadIdx, lookups, calls, pureVars >>

\* The initialiser runs ArcSwap::default and sets the cell.
InitCell(p) ==
    /\ pc[p] = "init"
    /\ cellState' = [cellState EXCEPT ![kind[p]] = "ready"]
    /\ swap' = [swap EXCEPT ![kind[p]] = ArcSwapDefault]
    /\ pc' = [pc EXCEPT ![p] = AfterCell(p)]
    /\ UNCHANGED << entity, op, history, kind, pend, input, snap, idx, inner,
                    result, loadIdx, lookups, calls, pureVars >>

\* swap.store(Arc::new(lookup)), and the return of set_*_tags.
\* A store that validates the collections already built against the
\* registry it publishes.
StoreRevalidates(p) ==
    /\ p \in Publishers
    /\ pc[p] = "store"
    /\ StoreWaitsFor(p) = {}
    /\ swap' = [swap EXCEPT ![kind[p]] = ArcSwapStore(@, pend[p])]
    /\ history' = [history EXCEPT ![kind[p]] = Append(@, pend[p])]
    /\ pend' = [pend EXCEPT ![p] = EmptyRegistry]
    /\ pc' = [pc EXCEPT ![p] = "idle"]
    /\ result' = [r \in DOMAIN result |->
                    IF pc[r] = "done" /\ kind[r] = kind[p] /\ result[r].tag = "Ok"
                    THEN Ok(SelectSeq(result[r].inner,
                                      LAMBDA t : t.name \in DOMAIN pend[p]))
                    ELSE result[r]]
    /\ UNCHANGED << entity, op, cellState, kind, input, snap, idx, inner,
                    loadIdx, lookups, calls, pureVars >>

Store(p) ==
    /\ p \in Publishers
    /\ pc[p] = "store"
    /\ StoreWaitsFor(p) = {}
    /\ swap' = [swap EXCEPT ![kind[p]] = ArcSwapStore(@, pend[p])]
    /\ history' = [history EXCEPT ![kind[p]] = Append(@, pend[p])]
    /\ pend' = [pend EXCEPT ![p] = EmptyRegistry]
    /\ pc' = [pc EXCEPT ![p] = "idle"]
    /\ UNCHANGED << entity, op, cellState, kind, input, snap, idx, inner, result,
                    loadIdx, lookups, calls, pureVars >>

\* What a call of a constructor of BotTags or PackTags starts from.
BeginCall(r, k, o, value) ==
    /\ r \in Readers
    /\ pc[r] = "idle"
    /\ k = entity
    /\ kind' = [kind EXCEPT ![r] = k]
    /\ op' = [op EXCEPT ![r] = o]
    /\ input' = [input EXCEPT ![r] = value]
    /\ snap' = [snap EXCEPT ![r] = EmptyRegistry]
    /\ idx' = [idx EXCEPT ![r] = 1]
    /\ inner' = [inner EXCEPT ![r] = <<>>]
    /\ loadIdx' = [loadIdx EXCEPT ![r] = -1]
    /\ lookups' = [lookups EXCEPT ![r] = <<>>]
    /\ UNCHANGED << entity, cellState, swap, history, pend, calls, pureVars >>

\* BotTags::parse_from_json(value) up to get_bot_tags().
BotParseFromJson(r) ==
    \E value \in BotJsonInputs :
        /\ BeginCall(r, "bot", "parse_from_json", value)
        /\ IF value.t = "absent"
           THEN /\ result' = [result EXCEPT ![r] = Err("Cannot derive tags from null.", "")]
                /\ pc' = [pc EXCEPT ![r] = "done"]
           ELSE IF ~from_value(value).ok
           THEN /\ result' = [result EXCEPT ![r] = Err("Cannot derive tags", value.t)]
                /\ pc' = [pc EXCEPT ![r] = "done"]
           ELSE /\ result' = [result EXCEPT ![r] = NoResult]
                /\ pc' = [pc EXCEPT ![r] = "get_or_init"]

\* PackTags::parse_from_json(value) up to get_pack_tags().
PackParseFromJson(r) ==
    \E value \in PackJsonInputs :
        /\ BeginCall(r, "pack", "parse_from_json", value)
        /\ IF value.t = "absent"
           THEN /\ result' = [result EXCEPT ![r] = Err("Cannot derive tags from null.", "")]
                /\ pc' = [pc EXCEPT ![r] = "done"]
           ELSE /\ result' = [result EXCEPT ![r] = NoResult]
                /\ pc' = [pc EXCEPT ![r] = "get_or_init"]

\* let tags = lookup.load();
\* A load that takes the registry out of the store (ArcSwap::swap with the
\* default) instead of borrowing it.
LoadSwapsOut(r) ==
    /\ r \in Readers
    /\ pc[r] = "load"
    /\ LoadWaitsFor(r) = {}
    /\ snap' = [snap EXCEPT ![r] = ArcSwapLoad(swap[kind[r]])]
    /\ swap' = [swap EXCEPT ![kind[r]] = EmptyRegistry]
    /\ loadIdx' = [loadIdx EXCEPT ![r] = Len(history[kind[r]])]
    /\ pc' = [pc EXCEPT ![r] = "lookup"]
    /\ UNCHANGED << entity, op, cellState, history, kind, pend, input, idx, inner,
                    result, lookups, calls, pureVars >>

Load(r) ==
    /\ r \in Readers
    /\ pc[r] = "load"
    /\ LoadWaitsFor(r) = {}
    /\ snap' = [snap EXCEPT ![r] = ArcSwapLoad(swap[kind[r]])]
    /\ loadIdx' = [loadIdx EXCEPT ![r] = Len(history[kind[r]])]
    /\ pc' = [pc EXCEPT ![r] = "lookup"]
    /\ UNCHANGED << entity, op, cellState, swap, history, kind, pend, input, idx, inner,
                    result, lookups, calls, pureVars >>

\* What a lookup leaves in the log: the registry that answered it and the
\* number of stores completed by then.
Looked(r) == [reg |-> Tags(r), seen |-> Len(history[kind[r]])]

\* One iteration of the for loop of BotTags::parse_from_json, or its exit.
BotLookup(r) ==
    /\ r \in Readers
    /\ pc[r] = "lookup"
    /\ kind[r] = "bot"
    /\ op[r] = "parse_from_json"
    /\ LET flags == from_value(input[r]).flags
       IN  IF idx[r] > Len(flags)
           THEN /\ result' = [result EXCEPT ![r] = Ok(inner[r])]
                /\ pc' = [pc EXCEPT ![r] = "done"]
                /\ UNCHANGED << idx, inner, lookups >>
           ELSE LET step == bot_parse_step(Tags(r), flags[idx[r]], inner[r])
                IN  /\ lookups' = [lookups EXCEPT ![r] = Append(@, Looked(r))]
                    /\ inner' = [inner EXCEPT ![r] = step.inner]
                    /\ IF step.ret
                       THEN /\ result' = [result EXCEPT ![r] = step.result]
                            /\ pc' = [pc EXCEPT ![r] = "done"]
                            /\ UNCHANGED idx
                       ELSE /\ idx' = [idx EXCEPT ![r] = @ + 1]
                            /\ UNCHANGED << result, pc >>
    /\ UNCHANGED << entity, op, cellState, swap, history, kind, pend, input, snap, loadIdx,
                    calls, pureVars >>

\* The lookup of PackTags::parse_from_json and its return.
PackLookup(r) ==
    /\ r \in Readers
    /\ pc[r] = "lookup"
    /\ kind[r] = "pack"
    /\ op[r] = "parse_from_json"
    /\ LET val == input[r]
           name == ToLowercase(val.s)
       IN  IF val.t = "string"
           THEN /\ lookups' = [lookups EXCEPT ![r] = Append(@, Looked(r))]
                /\ IF name \in DOMAIN Tags(r)
                   THEN /\ result' = [result EXCEPT ![r] =
                               Ok(<< PackVisibleTag(name, Tags(r)[name].display_name,
                                                     Tags(r)[name].category) >>)]
                   ELSE /\ result' = [result EXCEPT ![r] = Err("Unknown tag", val.s)]
           ELSE /\ result' = [result EXCEPT ![r] = Err("Unknown tag", val.t)]
                /\ UNCHANGED lookups
    /\ pc' = [pc EXCEPT ![r] = "done"]
    /\ UNCHANGED << entity, op, cellState, swap, history, kind, pend, input, snap, idx,
                    inner, loadIdx, calls, pureVars >>

\* BotTags::from_raw(flags) up to get_bot_tags().
BotFromRaw(r) ==
    \E value \in BotRawInputs :
        /\ BeginCall(r, "bot", "from_raw", value)
        /\ result' = [result EXCEPT ![r] = NoResult]
        /\ pc' = [pc EXCEPT ![r] = "get_or_init"]

\* BotTags::from_cql(cql_val) up to get_bot_tags(): a value that is not a
\* Set gives Ok(Self::default()).
BotFromCql(r) ==
    \E value \in BotCqlInputs :
        /\ BeginCall(r, "bot", "from_cql", value)
        /\ IF value.t # "Set"
           THEN /\ result' = [result EXCEPT ![r] = Ok(<<>>)]
                /\ pc' = [pc EXCEPT ![r] = "done"]
           ELSE /\ result' = [result EXCEPT ![r] = NoResult]
                /\ pc' = [pc EXCEPT ![r] = "get_or_init"]

\* filter_valid_tags over the loaded Guard, and the return of
\* BotTags::from_raw or BotTags::from_cql.
BotFilter(r) ==
    /\ r \in Readers
    /\ pc[r] = "lookup"
    /\ kind[r] = "bot"
    /\ op[r] \in {"from_raw", "from_cql"}
    /\ LET names == IF op[r] = "from_raw"
                    THEN input[r].items
                    ELSE text_items(input[r].items)
           ret == IF op[r] = "from_raw"
                  THEN bot_from_raw(input[r].items, Tags(r))
                  ELSE bot_from_cql(input[r].items, Tags(r))
       IN  /\ lookups' = [lookups EXCEPT ![r] = @ \o [i \in 1..Len(names) |-> Looked(r)]]
           /\ inner' = [inner EXCEPT ![r] = ret.inner]
           /\ result' = [result EXCEPT ![r] = ret]
    /\ pc' = [pc EXCEPT ![r] = "done"]
    /\ UNCHANGED << entity, op, cellState, swap, history, kind, pend, input, snap, idx,
                    loadIdx, calls, pureVars >>

\* PackTags::from_raw(tag) up to get_pack_tags().
PackFromRaw(r) ==
    \E value \in PackRawInputs :
        /\ BeginCall(r, "pack", "from_raw", value)
        /\ result' = [result EXCEPT ![r] = NoResult]
        /\ pc' = [pc EXCEPT ![r] = "get_or_init"]

\* PackTags::from_cql(cql_val) up to get_pack_tags(): a value that is not a
\* Text gives Ok(Self::default()).
PackFromCql(r) ==
    \E value \in PackCqlInputs :
        /\ BeginCall(r, "pack", "from_cql", value)
        /\ IF value.t # "Text"
           THEN /\ result' = [result EXCEPT ![r] = Ok(<<>>)]
                /\ pc' = [pc EXCEPT ![r] = "done"]
           ELSE /\ result' = [result EXCEPT ![r] = NoResult]
                /\ pc' = [pc EXCEPT ![r] = "get_or_init"]

\* get_tag over the loaded Guard, and the return of PackTags::from_raw;
\* from_cql hands it s.to_lowercase().
PackFilter(r) ==
    /\ r \in Readers
    /\ pc[r] = "lookup"
    /\ kind[r] = "pack"
    /\ op[r] \in {"from_raw", "from_cql"}
    /\ LET tag == IF op[r] = "from_raw" THEN input[r].s ELSE ToLowercase(input[r].s)
       IN  /\ lookups' = [lookups EXCEPT ![r] = Append(@, Looked(r))]
           /\ result' = [result EXCEPT ![r] = pack_from_raw(tag, Tags(r))]
    /\ pc' = [pc EXCEPT ![r] = "done"]
    /\ UNCHANGED << entity, op, cellState, swap, history, kind, pend, input, snap, idx,
                    inner, loadIdx, calls, pureVars >>

\* serde's BotTags::deserialize(deserializer): no registry is consulted.
BotDeserialize(r) ==
    \E payload \in BotSerdeInputs :
        /\ BeginCall(r, "bot", "deserialize", payload)
        /\ result' = [result EXCEPT ![r] = bot_deserialize(payload)]
        /\ pc' = [pc EXCEPT ![r] = "done"]

\* serde's PackTags::deserialize(deserializer): no registry is consulted.
PackDeserialize(r) ==
    \E payload \in PackSerdeInputs :
        /\ BeginCall(r, "pack", "deserialize", payload)
        /\ result' = [result EXCEPT ![r] = pack_deserialize(payload)]
        /\ pc' = [pc EXCEPT ![r] = "done"]

\* BotTags::default() / PackTags::default(): the derived Default, an empty
\* Vec or None.
TagsDefault(r) ==
    /\ BeginCall(r, entity, "default", JsonAbsent)
    /\ result' = [result EXCEPT ![r] = Ok(<<>>)]
    /\ pc' = [pc EXCEPT ![r] = "done"]

\* The caller drops the BotTags or PackTags (or the error) it was returned,
\* and is free to make its next call.
DropTags(r) ==
    /\ r \in Readers
    /\ pc[r] = "done"
    /\ pc' = [pc EXCEPT ![r] = "idle"]
    /\ kind' = [kind EXCEPT ![r] = "bot"]
    /\ op' = [op EXCEPT ![r] = "default"]
    /\ input' = [input EXCEPT ![r] = JsonAbsent]
    /\ snap' = [snap EXCEPT ![r] = EmptyRegistry]
    /\ idx' = [idx EXCEPT ![r] = 1]
    /\ inner' = [inner EXCEPT ![r] = <<>>]
    /\ result' = [result EXCEPT ![r] = NoResult]
    /\ loadIdx' = [loadIdx EXCEPT ![r] = -1]
    /\ lookups' = [lookups EXCEPT ![r] = <<>>]
    /\ UNCHANGED << entity, cellState, swap, history, pend, calls, pureVars >>

\* The steps a process takes inside a call.
Step(p) ==
    \/ GetOrInit(p) \/ InitCell(p) \/ Store(p) \/ Load(p)
    \/ BotLookup(p) \/ PackLookup(p) \/ BotFilter(p) \/ PackFilter(p)

Next ==
    \E p \in Procs :
        \/ SetTags(p)
        \/ BotParseFromJson(p)
        \/ PackParseFromJson(p)
        \/ BotFromRaw(p)
        \/ BotFromCql(p)
        \/ PackFromRaw(p)
        \/ PackFromCql(p)
        \/ BotDeserialize(p)
        \/ PackDeserialize(p)
        \/ TagsDefault(p)
        \/ GetOrInit(p)
        \/ InitCell(p)
        \/ Store(p)
        \/ Load(p)
        \/ BotLookup(p)
        \/ PackLookup(p)
        \/ BotFilter(p)
        \/ PackFilter(p)
        \/ DropTags(p)

Spec == Init /\ [][Next]_vars

(***************************************************************************)
(* The codec functions of handler.rs applied to drawn inputs.              *)
(***************************************************************************)
\* Keys, categories and descriptors of the registries handed to the codec.
CodecKeys == {"Moderation", "Music", "Utility"}
CodecCategories == {"General"}
CodecFlags ==
    {Flag(w, c, d) : w \in 0..MaxWeight, c \in CodecCategories, d \in BOOLEAN}

\* Every BTreeMap<String, Flag> over those keys and descriptors.
CodecRegistries == UNION {[D -> CodecFlags] : D \in SUBSET CodecKeys}

\* The names handed to from_named_flags: the keys and a name of no registry.
CodecNames == CodecKeys \cup {"Cheese"}

\* The names of a Vec<VisibleTag>, in order.
NamesOf(tags) == [i \in 1..Len(tags) |-> tags[i].name]

InitCodecDrawn ==
    /\ cLookup \in CodecRegistries
    /\ cOp = "none"
    /\ cFlags = 0
    /\ cNamed = <<>>
    /\ cTags = <<>>
    /\ cEncoded = 0

\* to_named_flags(&flags, &lookup) is called.
CodecDecode ==
    \E flags \in 0..MaxMask :
        /\ cOp = "none"
        /\ cOp' = "to_named_flags"
        /\ cFlags' = flags
        /\ cTags' = to_named_flags(flags, cLookup)
        /\ cNamed' = <<>>
        /\ cEncoded' = 0
        /\ UNCHANGED << cLookup, storeVars, typeVars >>

\* from_named_flags(named.iter(), &lookup) is called.
CodecEncode ==
    \E named \in SeqsUpTo(CodecNames, MaxNamed) :
        /\ cOp = "none"
        /\ cOp' = "from_named_flags"
        /\ cNamed' = named
        /\ cEncoded' = from_named_flags(named, cLookup)
        /\ cFlags' = 0
        /\ cTags' = <<>>
        /\ UNCHANGED << cLookup, storeVars, typeVars >>

\* from_named_flags is called on the names to_named_flags just returned.
CodecEncodeDecoded ==
    /\ cOp = "to_named_flags"
    /\ cOp' = "round_trip"
    /\ cNamed' = NamesOf(cTags)
    /\ cEncoded' = from_named_flags(NamesOf(cTags), cLookup)
    /\ UNCHANGED << cLookup, cFlags, cTags, storeVars, typeVars >>

NextCodec == CodecDecode \/ CodecEncode \/ CodecEncodeDecoded

\* The stores untouched, a registry drawn for the codec.
InitDrawn == InitStore /\ entity = "bot" /\ InitCodecDrawn /\ InitTypes

SpecCodec == InitDrawn /\ [][NextCodec]_vars

(***************************************************************************)
(* Vocabulary of the properties.                                           *)
(***************************************************************************)
\* The registries a reader of store k may meet: the initial empty one and
\* those given to the stores completed so far.
Published(k) == {EmptyRegistry} \cup {history[k][i] : i \in 1..Len(history[k])}

\* The registry of store k once n stores have completed.
RegistryAt(k, n) == IF n = 0 THEN EmptyRegistry ELSE history[k][n]

\* Reader r has loaded the snapshot of its call.
Loaded(r) == loadIdx[r] >= 0

\* Process p is inside a call.
InCall(p) == pc[p] \in {"get_or_init", "init", "load", "lookup", "store"}

\* Bit i of a natural, and whether two naturals share a bit.
BitIdx == 0..MaxMask
Bit(n, i) == (n \div (2 ^ i)) % 2
Overlaps(a, b) == \E i \in BitIdx : Bit(a, i) = 1 /\ Bit(b, i) = 1

\* The registry of the examples: Music:1, Moderation:2, Utility:4.
ExampleRegistry ==
    [k \in {"Moderation", "Music", "Utility"} |->
        CASE k = "Music" -> Flag(1, "General", FALSE)
          [] k = "Moderation" -> Flag(2, "General", FALSE)
          [] OTHER -> Flag(4, "General", FALSE)]

\* The keys of a registry whose descriptor is not deprecated.
LiveKeys(reg) == {k \in DOMAIN reg : ~reg[k].depreciated}

\* b is the OR of the bit weights of some non-deprecated descriptors of reg.
Combination(b, reg) ==
    \E S \in SUBSET LiveKeys(reg) :
        \A i \in BitIdx : (Bit(b, i) = 1) <=> (\E k \in S : Bit(reg[k].flag, i) = 1)

\* No two non-deprecated descriptors of reg share a bit.
DisjointWeights(reg) ==
    \A k1, k2 \in LiveKeys(reg) : k1 # k2 => ~Overlaps(reg[k1].flag, reg[k2].flag)

(***************************************************************************)
(* C1: every registry a read returns, and every registry a store holds, is *)
(* one of the complete registries published so far or the initial empty    *)
(* one, never a mapping mixing the entries of two of them.                 *)
(***************************************************************************)
C1_AtomicPublish ==
    /\ \A k \in Kinds : swap[k] \in Published(k)
    /\ \A r \in Readers :
          /\ Loaded(r) => snap[r] \in Published(kind[r])
          /\ \A i \in 1..Len(lookups[r]) : lookups[r][i].reg \in Published(kind[r])

\* A reader holds a published registry while the store already holds another.
C1_Witness ==
    \E r \in Readers :
        /\ pc[r] = "lookup"
        /\ snap[r] # EmptyRegistry
        /\ Len(history[kind[r]]) >= 2
        /\ swap[kind[r]] # snap[r]

(***************************************************************************)
(* C2: every lookup of one call is answered by the registry that was       *)
(* current when the call loaded its snapshot, also when a store completes  *)
(* between two lookups.                                                    *)
(***************************************************************************)
C2_OneSnapshotPerCall ==
    \A r \in Readers :
        \A i \in 1..Len(lookups[r]) :
            lookups[r][i].reg = RegistryAt(kind[r], loadIdx[r])

\* A store completed between the first and the second lookup of a call, and
\* the registry it published answers the second name differently.
C2_Witness ==
    \E r \in Readers :
        /\ Len(lookups[r]) >= 2
        /\ lookups[r][1].seen < lookups[r][2].seen
        /\ LET name == ToTitleCase(input[r].items[2])
               new == history[kind[r]][lookups[r][2].seen]
           IN  (name \in DOMAIN new) # (name \in DOMAIN lookups[r][2].reg)

(***************************************************************************)
(* C3: a load returns the empty registry before any store has completed    *)
(* and the registry of the most recent completed store afterwards.         *)
(***************************************************************************)
C3_CurrentIsLatest ==
    \A r \in Readers :
        Loaded(r) =>
            /\ loadIdx[r] = 0 => snap[r] = EmptyRegistry
            /\ loadIdx[r] > 0 => snap[r] = history[kind[r]][loadIdx[r]]

\* A load after two stores of different registries.
C3_Witness ==
    \E r \in Readers :
        /\ loadIdx[r] >= 2
        /\ history[kind[r]][1] # history[kind[r]][loadIdx[r]]
        /\ snap[r] # EmptyRegistry

(***************************************************************************)
(* C4: stores are totally ordered and the later one supersedes: a set      *)
(* store holds the registry of the last completed store, and a read that   *)
(* starts after it returns no registry of an earlier store.                *)
(***************************************************************************)
C4_LaterPublishSupersedes ==
    /\ \A k \in Kinds :
          history[k] # <<>> => swap[k] = history[k][Len(history[k])]
    /\ \A r \in Readers :
          Loaded(r) =>
              \A j \in 1..(loadIdx[r] - 1) :
                  snap[r] = history[kind[r]][j]
                      => history[kind[r]][j] = history[kind[r]][loadIdx[r]]

\* A read started after a store of one registry was followed by a store of
\* another.
C4_Witness ==
    \E r \in Readers :
        /\ pc[r] = "lookup"
        /\ loadIdx[r] = 2
        /\ Len(history[kind[r]]) = 2
        /\ history[kind[r]][1] # history[kind[r]][2]

\* Process p is inside a call and cannot take its next step.
Waits(p) == InCall(p) /\ ~ENABLED Step(p)

\* The processes running the initialiser of the OnceCell of store k.
Initialisers(k) == {q \in Procs : pc[q] = "init" /\ kind[q] = k}

(***************************************************************************)
(* C5, as claimed: a reader inside a call never waits, whatever the        *)
(* publishers are doing, and a publisher inside a call waits for no        *)
(* reader (at most for another publisher).                                 *)
(***************************************************************************)
C5_NeverWaits ==
    /\ \A r \in Readers : ~Waits(r)
    /\ \A p \in Publishers :
          Waits(p) => /\ Initialisers(kind[p]) # {}
                      /\ Initialisers(kind[p]) \subseteq Publishers

(***************************************************************************)
(* C5, amended: once the OnceCell of its store is set, a process inside a  *)
(* call can always take its next step: a load or a lookup never waits for  *)
(* a publisher and a store never waits for a reader holding a snapshot.    *)
(***************************************************************************)
C5_NeverWaitsOnceSet ==
    \A p \in Procs :
        InCall(p) /\ cellState[kind[p]] = "ready" => ENABLED Step(p)

\* A publisher is about to store while a reader holds an older snapshot.
C5_Witness ==
    \E r \in Readers : \E p \in Publishers :
        /\ pc[r] = "lookup"
        /\ pc[p] = "store"
        /\ kind[p] = kind[r]
        /\ history[kind[r]] # <<>>
        /\ snap[r] # swap[kind[r]]

(***************************************************************************)
(* C6: to_named_flags returns, in ascending key order, exactly the keys    *)
(* whose descriptor is not deprecated and whose bit weight shares a bit    *)
(* with the bitmask; bits owned by no descriptor change nothing.           *)
(***************************************************************************)
C6_DecodeInKeyOrder ==
    cOp = "to_named_flags" =>
        LET names == NamesOf(cTags)
        IN  /\ \A i, j \in 1..Len(names) : i < j => StrLess(names[i], names[j])
            /\ {names[i] : i \in 1..Len(names)} =
                   {k \in DOMAIN cLookup :
                       ~cLookup[k].depreciated /\ Overlaps(cFlags, cLookup[k].flag)}
            /\ \A i \in 1..Len(cTags) :
                   cTags[i].category = cLookup[cTags[i].name].category
            /\ (cLookup = ExampleRegistry /\ cFlags \in {7, 15})
                   => names = << "Moderation", "Music", "Utility" >>

\* The example registry decoded from a bitmask with a bit no descriptor owns.
C6_Witness ==
    /\ cOp = "to_named_flags"
    /\ cLookup = ExampleRegistry
    /\ cFlags = 15
    /\ NamesOf(cTags) = << "Moderation", "Music", "Utility" >>

(***************************************************************************)
(* C7: no tag of a decoded list names a deprecated descriptor.             *)
(***************************************************************************)
C7_DeprecatedNeverDecoded ==
    cOp = "to_named_flags" =>
        \A i \in 1..Len(cTags) :
            /\ cTags[i].name \in DOMAIN cLookup
            /\ ~cLookup[cTags[i].name].depreciated

\* A bitmask holding the bit of a deprecated descriptor was decoded, and
\* another descriptor was emitted.
C7_Witness ==
    /\ cOp = "to_named_flags"
    /\ cTags # <<>>
    /\ \E k \in DOMAIN cLookup :
          cLookup[k].depreciated /\ Overlaps(cFlags, cLookup[k].flag)

(***************************************************************************)
(* C8: from_named_flags returns the OR of the bit weights of the names     *)
(* that are keys with a non-deprecated descriptor: a bit is set in the     *)
(* result exactly when one of them owns it.                                *)
(***************************************************************************)
C8_EncodeOrsLiveNames ==
    cOp = "from_named_flags" =>
        /\ \A i \in BitIdx :
              (Bit(cEncoded, i) = 1) <=>
                  (\E j \in 1..Len(cNamed) :
                      /\ cNamed[j] \in LiveKeys(cLookup)
                      /\ Bit(cLookup[cNamed[j]].flag, i) = 1)
        /\ cEncoded < 2 ^ (MaxMask + 1)
        /\ (cLookup = ExampleRegistry /\ cNamed = << "Music", "Utility" >>)
               => cEncoded = 5

\* A live name was encoded together with a deprecated name or a name of no
\* descriptor.
C8_Witness ==
    /\ cOp = "from_named_flags"
    /\ \E j \in 1..Len(cNamed) :
          cNamed[j] \in LiveKeys(cLookup) /\ cLookup[cNamed[j]].flag # 0
    /\ \E j \in 1..Len(cNamed) :
          \/ cNamed[j] \notin DOMAIN cLookup
          \/ cNamed[j] \in DOMAIN cLookup \ LiveKeys(cLookup)
              /\ cLookup[cNamed[j]].flag # 0
    /\ cEncoded # 0

(***************************************************************************)
(* C9, as claimed: for every registry and every bitmask that is an OR of   *)
(* bit weights of its non-deprecated descriptors, encoding the decoded     *)
(* names gives the bitmask back.                                           *)
(***************************************************************************)
C9_RoundTripAnyRegistry ==
    (cOp = "round_trip" /\ Combination(cFlags, cLookup)) => cEncoded = cFlags

(***************************************************************************)
(* C9, amended: the round trip holds for the registries whose              *)
(* non-deprecated descriptors have pairwise disjoint bit weights.          *)
(***************************************************************************)
C9_RoundTripDisjointWeights ==
    (cOp = "round_trip" /\ DisjointWeights(cLookup) /\ Combination(cFlags, cLookup))
        => cEncoded = cFlags

\* The OR of two disjoint weights went through the round trip.
C9_Witness ==
    /\ cOp = "round_trip"
    /\ DisjointWeights(cLookup)
    /\ Combination(cFlags, cLookup)
    /\ cFlags = 5
    /\ Len(cTags) = 2
    /\ cEncoded = 5

\* The candidates of an array that have no descriptor in a registry.
Unmatched(items, reg) ==
    {i \in 1..Len(items) : ToTitleCase(items[i]) \notin DOMAIN reg}

\* The least element of a non-empty set of naturals.
Least(S) == CHOOSE i \in S : \A j \in S : i <= j

\* Reader r has returned from BotTags::parse_from_json of an array.
BotReturned(r) == pc[r] = "done" /\ kind[r] = "bot" /\ input[r].t = "array"

(***************************************************************************)
(* C10, as claimed: strict validation is all-or-nothing; it stops at the   *)
(* first candidate without a descriptor and returns an UnknownTag error    *)
(* naming that candidate, and no collection.                               *)
(***************************************************************************)
C10_ErrorNamesCandidate ==
    \A r \in Readers :
        BotReturned(r) =>
            LET items == input[r].items
                bad == Unmatched(items, snap[r])
            IN  IF bad = {}
                THEN result[r].tag = "Ok" /\ Len(result[r].inner) = Len(items)
                ELSE /\ result[r].tag = "Err"
                     /\ result[r].error = "Unknown tag"
                     /\ result[r].value = items[Least(bad)]
                     /\ result[r].inner = <<>>
                     /\ Len(lookups[r]) = Least(bad)

(***************************************************************************)
(* C10, amended: the error names the title-cased form of the first         *)
(* candidate without a descriptor.                                         *)
(***************************************************************************)
C10_ErrorNamesTitleCased ==
    \A r \in Readers :
        BotReturned(r) =>
            LET items == input[r].items
                bad == Unmatched(items, snap[r])
            IN  IF bad = {}
                THEN result[r].tag = "Ok" /\ Len(result[r].inner) = Len(items)
                ELSE /\ result[r].tag = "Err"
                     /\ result[r].error = "Unknown tag"
                     /\ result[r].value = ToTitleCase(items[Least(bad)])
                     /\ result[r].inner = <<>>
                     /\ Len(lookups[r]) = Least(bad)

\* A call failed on its second candidate after its first one had matched.
C10_Witness ==
    \E r \in Readers :
        /\ BotReturned(r)
        /\ Len(input[r].items) = 2
        /\ Unmatched(input[r].items, snap[r]) = {2}
        /\ inner[r] # <<>>
        /\ result[r].tag = "Err"

\* Reader r has returned from the lenient path of BotTags: from_raw, or
\* from_cql of a Set.
LenientReturned(r) ==
    /\ pc[r] = "done"
    /\ kind[r] = "bot"
    /\ \/ op[r] = "from_raw"
       \/ op[r] = "from_cql" /\ input[r].t = "Set"

\* The candidate names of such a call, in order.
LenientNames(r) ==
    IF op[r] = "from_raw" THEN input[r].items ELSE text_items(input[r].items)

\* The positions of a sequence of names that are keys of a registry.
Matched(names, reg) == {i \in 1..Len(names) : names[i] \in DOMAIN reg}

(***************************************************************************)
(* C11: lenient validation never fails: for every candidate sequence and   *)
(* every snapshot it returns a collection that holds exactly the           *)
(* candidates with a descriptor in the snapshot; the others are dropped.   *)
(***************************************************************************)
C11_LenientNeverFails ==
    \A r \in Readers :
        LenientReturned(r) =>
            LET names == LenientNames(r)
                kept == Matched(names, snap[r])
                held == result[r].inner
            IN  /\ result[r].tag = "Ok"
                /\ Len(held) = Cardinality(kept)
                /\ {held[i].name : i \in 1..Len(held)} = {names[i] : i \in kept}
                /\ (snap[r] = BotRegA /\ names = << "Music", "Cheese" >>)
                       => NamesOf(held) = << "Music" >>

\* from_raw returned one of two candidates: the other had no descriptor in
\* the published registry it loaded.
C11_Witness ==
    \E r \in Readers :
        /\ LenientReturned(r)
        /\ op[r] = "from_raw"
        /\ snap[r] # EmptyRegistry
        /\ Len(input[r].items) = 2
        /\ Cardinality(Matched(input[r].items, snap[r])) = 1
        /\ Len(result[r].inner) = 1

\* Reader r has returned a collection from BotTags::parse_from_json.
StrictAccepted(r) ==
    /\ pc[r] = "done"
    /\ kind[r] = "bot"
    /\ op[r] = "parse_from_json"
    /\ result[r].tag = "Ok"

\* A sequence of names that is not in ascending key order.
OutOfKeyOrder(names) ==
    \E i, j \in 1..Len(names) : i < j /\ StrLess(names[j], names[i])

(***************************************************************************)
(* C12: both policies preserve the order of the input: the names a strict  *)
(* validation holds are its candidates (title-cased) in input order, and   *)
(* the names a lenient validation holds are its matched candidates in      *)
(* input order, not in the key order of the registry.                      *)
(***************************************************************************)
C12_InputOrderKept ==
    \A r \in Readers :
        /\ StrictAccepted(r) =>
              NamesOf(result[r].inner) =
                  [i \in 1..Len(input[r].items) |-> ToTitleCase(input[r].items[i])]
        /\ LenientReturned(r) =>
              NamesOf(result[r].inner) =
                  SelectSeq(LenientNames(r), LAMBDA n : n \in DOMAIN snap[r])
        /\ (LenientReturned(r) /\ snap[r] = BotRegB
                /\ LenientNames(r) = << "Music", "Hello" >>)
               => NamesOf(result[r].inner) = << "Music", "Hello" >>

\* A strict validation returned two tags whose input order is not the key
\* order of the registry.
C12_Witness ==
    \E r \in Readers :
        /\ StrictAccepted(r)
        /\ Len(result[r].inner) = 2
        /\ OutOfKeyOrder(NamesOf(result[r].inner))

\* Two names equal up to the case of their letters.
SameUpToCase(a, b) == ToLowercase(a) = ToLowercase(b)

\* Reader r has returned a collection from an operation that validates
\* against the registry.
Validated(r) ==
    /\ pc[r] = "done"
    /\ op[r] \in {"parse_from_json", "from_raw", "from_cql"}
    /\ result[r].tag = "Ok"

(***************************************************************************)
(* C13: every tag a validation returns (strict or lenient, BotTags or      *)
(* PackTags) carries the category of the descriptor its candidate matched  *)
(* in the snapshot of the call.                                            *)
(***************************************************************************)
C13_CategoryOfDescriptor ==
    \A r \in Readers :
        Validated(r) =>
            \A i \in 1..Len(result[r].inner) :
                \E k \in DOMAIN snap[r] :
                    /\ SameUpToCase(k, result[r].inner[i].name)
                    /\ result[r].inner[i].category = snap[r][k].category

\* Reader r has been returned a BotTags or a PackTags.
Constructed(r) == pc[r] = "done" /\ result[r].tag = "Ok"

(***************************************************************************)
(* C14: a held tag is only ever the outcome of validating a name against a *)
(* registry snapshot: whatever operation returned a BotTags or a PackTags, *)
(* the call loaded a snapshot and the name of every tag it holds is a key  *)
(* of that snapshot (up to letter case).                                   *)
(***************************************************************************)
C14_OnlyValidatedTags ==
    \A r \in Readers :
        Constructed(r) =>
            \A i \in 1..Len(result[r].inner) :
                /\ Loaded(r)
                /\ \E k \in DOMAIN snap[r] : SameUpToCase(k, result[r].inner[i].name)

\* No two tags of a sequence have the same name.
DistinctNames(tags) ==
    \A i, j \in 1..Len(tags) : i # j => tags[i].name # tags[j].name

(***************************************************************************)
(* C15: a BotTags is a set: after a decode from a bitmask, from JSON names *)
(* or from persisted names, no two of the tags it holds have the same      *)
(* name, also when the input repeats a name.                               *)
(***************************************************************************)
C15_NoDuplicateNames ==
    /\ DistinctNames(cTags)
    /\ \A r \in Readers :
          (Validated(r) /\ kind[r] = "bot") => DistinctNames(result[r].inner)

\* Reader r has returned from parse_from_json after loading a snapshot.
StrictReturned(r) ==
    pc[r] = "done" /\ op[r] = "parse_from_json" /\ Loaded(r)

\* The keys of a registry that equal a candidate up to letter case.
KeysUpToCase(name, reg) == {k \in DOMAIN reg : SameUpToCase(k, name)}

(***************************************************************************)
(* C16, as claimed: strict validation is case-insensitive: when every      *)
(* candidate equals a key of the snapshot up to letter case, the call      *)
(* succeeds and holds each candidate under the spelling of that key.       *)
(***************************************************************************)
C16_CaseInsensitive ==
    \A r \in Readers :
        StrictReturned(r) =>
            /\ (kind[r] = "bot"
                    /\ \A i \in 1..Len(input[r].items) :
                           KeysUpToCase(input[r].items[i], snap[r]) # {})
                  => /\ result[r].tag = "Ok"
                     /\ Len(result[r].inner) = Len(input[r].items)
                     /\ \A i \in 1..Len(input[r].items) :
                            result[r].inner[i].name
                                \in KeysUpToCase(input[r].items[i], snap[r])
            /\ (kind[r] = "pack" /\ input[r].t = "string"
                    /\ KeysUpToCase(input[r].s, snap[r]) # {})
                  => /\ result[r].tag = "Ok"
                     /\ result[r].inner[1].name \in KeysUpToCase(input[r].s, snap[r])

(***************************************************************************)
(* C16, amended: strict validation looks a candidate up under its          *)
(* canonical form: when the title-case form (bot tags) or the lower-case   *)
(* form (pack tags) of every candidate is a key of the snapshot, the call  *)
(* succeeds and holds each candidate under the spelling of that key.       *)
(***************************************************************************)
C16_CanonicalFormLookedUp ==
    \A r \in Readers :
        StrictReturned(r) =>
            /\ (kind[r] = "bot"
                    /\ \A i \in 1..Len(input[r].items) :
                           ToTitleCase(input[r].items[i]) \in DOMAIN snap[r])
                  => /\ result[r].tag = "Ok"
                     /\ Len(result[r].inner) = Len(input[r].items)
                     /\ \A i \in 1..Len(input[r].items) :
                            /\ result[r].inner[i].name = ToTitleCase(input[r].items[i])
                            /\ result[r].inner[i].name \in DOMAIN snap[r]
            /\ (kind[r] = "pack" /\ input[r].t = "string"
                    /\ ToLowercase(input[r].s) \in DOMAIN snap[r])
                  => /\ result[r].tag = "Ok"
                     /\ result[r].inner[1].name = ToLowercase(input[r].s)
                     /\ result[r].inner[1].name \in DOMAIN snap[r]

\* A candidate spelled in another case than its key was accepted and is held
\* under the spelling of the key.
C16_Witness ==
    \E r \in Readers :
        /\ StrictReturned(r)
        /\ kind[r] = "bot"
        /\ result[r].tag = "Ok"
        /\ \E i \in 1..Len(result[r].inner) :
              /\ input[r].items[i] # result[r].inner[i].name
              /\ result[r].inner[i].name \in DOMAIN snap[r]

\* Reader r is in, or has returned from, BotTags::parse_from_json of a value
\* that is absent, null or not an array of strings.
BotMalformed(r) ==
    kind[r] = "bot" /\ op[r] = "parse_from_json" /\ input[r].t # "array"

\* The errors that report the shape of the payload.
MalformedPayload == {"Cannot derive tags from null.", "Cannot derive tags"}

(***************************************************************************)
(* C17: BotTags::parse_from_json of an absent or null value, or of a value *)
(* that is not an array of strings, fails with a malformed-payload error   *)
(* before any registry is touched: the call never reaches get_bot_tags,    *)
(* loads no snapshot and looks nothing up, whatever the store holds.       *)
(***************************************************************************)
C17_MalformedBeforeLookup ==
    \A r \in Readers :
        (BotMalformed(r) /\ pc[r] # "idle") =>
            /\ pc[r] = "done"
            /\ result[r].tag = "Err"
            /\ result[r].error \in MalformedPayload
            /\ result[r].inner = <<>>
            /\ ~Loaded(r)
            /\ lookups[r] = <<>>

\* A JSON object was rejected while a published registry was current.
C17_Witness ==
    \E r \in Readers :
        /\ BotMalformed(r)
        /\ pc[r] = "done"
        /\ input[r].t = "object"
        /\ result[r].tag = "Err"
        /\ swap["bot"] # EmptyRegistry

\* Reader r has returned from PackTags::from_raw, called directly or by
\* from_cql of a Text.
SingularReturned(r) ==
    /\ pc[r] = "done"
    /\ kind[r] = "pack"
    /\ \/ op[r] = "from_raw"
       \/ op[r] = "from_cql" /\ input[r].t = "Text"

\* The candidate handed to PackTags::from_raw by such a call.
SingularCandidate(r) ==
    IF op[r] = "from_raw" THEN input[r].s ELSE ToLowercase(input[r].s)

(***************************************************************************)
(* C18: PackTags::from_raw never fails: it returns a collection for every  *)
(* candidate and every snapshot, and the empty collection (inner = None)   *)
(* when the candidate has no descriptor in the snapshot.                   *)
(***************************************************************************)
C18_SingularNeverFails ==
    \A r \in Readers :
        SingularReturned(r) =>
            /\ result[r].tag = "Ok"
            /\ KeysUpToCase(SingularCandidate(r), snap[r]) = {}
                  => result[r].inner = <<>>
            /\ result[r].inner # <<>>
                  => result[r].inner[1].name = SingularCandidate(r)

\* from_raw returned the empty collection for a candidate that has no
\* descriptor in the published registry it loaded.
C18_Witness ==
    \E r \in Readers :
        /\ SingularReturned(r)
        /\ op[r] = "from_raw"
        /\ snap[r] # EmptyRegistry
        /\ KeysUpToCase(input[r].s, snap[r]) = {}
        /\ result[r] = Ok(<<>>)

(***************************************************************************)
(* C19: PackTags::from_raw is case-insensitive: for a candidate that       *)
(* equals a key of the snapshot up to letter case, it returns a non-empty  *)
(* collection that holds the registry's name for that key and the category *)
(* of its descriptor.                                                      *)
(***************************************************************************)
C19_SingularCaseInsensitive ==
    \A r \in Readers :
        SingularReturned(r) =>
            \A k \in KeysUpToCase(SingularCandidate(r), snap[r]) :
                /\ result[r].tag = "Ok"
                /\ result[r].inner # <<>>
                /\ result[r].inner[1].name = k
                /\ result[r].inner[1].category = snap[r][k].category

(***************************************************************************)
(* C20: a PackTags holds zero or one tag, never more, whichever of         *)
(* from_raw, parse_from_json, from_cql, default and deserialize returned   *)
(* it and whatever was constructed before.                                 *)
(***************************************************************************)
C20_AtMostOneTag ==
    \A r \in Readers :
        (pc[r] = "done" /\ kind[r] = "pack") => Len(result[r].inner) <= 1

\* deserialize was handed a sequence of two tags and returned no PackTags.
C20_Witness ==
    \E r \in Readers :
        /\ pc[r] = "done"
        /\ kind[r] = "pack"
        /\ op[r] = "deserialize"
        /\ Len(input[r].items) = 2
        /\ result[r].tag = "Err"
        /\ result[r].inner = <<>>

\* Reader r has returned from PackTags::parse_from_json.
SingularJsonReturned(r) ==
    pc[r] = "done" /\ kind[r] = "pack" /\ op[r] = "parse_from_json"

(***************************************************************************)
(* C21: the JSON contract of PackTags is a string or null: a string that   *)
(* matches no descriptor gives an error naming the value, a matching       *)
(* string gives a collection holding that tag, and null (or no value) is   *)
(* accepted.                                                               *)
(***************************************************************************)
C21_SingularJsonContract ==
    \A r \in Readers :
        SingularJsonReturned(r) =>
            /\ (input[r].t = "string" /\ ToLowercase(input[r].s) \notin DOMAIN snap[r])
                  => /\ result[r].tag = "Err"
                     /\ result[r].error = "Unknown tag"
                     /\ result[r].value = input[r].s
            /\ (input[r].t = "string" /\ ToLowercase(input[r].s) \in DOMAIN snap[r])
                  => /\ result[r].tag = "Ok"
                     /\ Len(result[r].inner) = 1
                     /\ result[r].inner[1].name = ToLowercase(input[r].s)
            /\ input[r].t \in {"null", "absent"} => result[r].tag = "Ok"

\* Reader r has returned from from_cql.
CqlReturned(r) == pc[r] = "done" /\ op[r] = "from_cql"

\* The tag held under a name names a non-deprecated descriptor of a registry.
HeldLive(name, reg) ==
    \E k \in KeysUpToCase(name, reg) : ~reg[k].depreciated

MaxChars == 3
\* Largest value of the const parameters MIN and MAX.
MaxThreshold == 4

\* The characters of the strings: an ASCII letter, a space, U+00E9 (e with
\* acute accent) and U+00BD (the fraction one half).
Chars == {"a", " ", "U+00E9", "U+00BD"}

\* The bytes of a character in UTF-8.
len_utf8(c) == IF c \in {"U+00E9", "U+00BD"} THEN 2 ELSE 1

\* str::len: the length of a string in bytes.
str_len(v) ==
    LET RECURSIVE Sum(_)
        Sum(i) == IF i > Len(v) THEN 0 ELSE len_utf8(v[i]) + Sum(i + 1)
    IN  Sum(1)

\* char::is_whitespace.
is_whitespace(c) == c = " "

\* str::trim: the string without its leading and trailing whitespace.
trim(v) ==
    LET kept == {i \in 1..Len(v) : ~is_whitespace(v[i])}
    IN  IF kept = {}
        THEN <<>>
        ELSE LET first == CHOOSE i \in kept : \A j \in kept : i <= j
                 last == CHOOSE i \in kept : \A j \in kept : j <= i
             IN  SubSeq(v, first, last)

\* deunicode::deunicode on one character: its ASCII transliteration.
deunicode_char(c) ==
    CASE c = "U+00E9" -> << "e" >>
      [] c = "U+00BD" -> << "1", "/", "2" >>
      [] OTHER -> << c >>

\* deunicode::deunicode(v).
deunicode(v) ==
    LET RECURSIVE Cat(_)
        Cat(i) == IF i > Len(v) THEN <<>> ELSE deunicode_char(v[i]) \o Cat(i + 1)
    IN  Cat(1)

\* impl From<&str> for NormalisingString.
NormalisingString_from(v) ==
    [normalised |-> trim(deunicode(v)), real |-> trim(v)]

\* Result<T, ParseError> of the functions of src/types.
TOk(value) == [tag |-> "Ok", value |-> value, error |-> ""]
TErr(error) == [tag |-> "Err", value |-> <<>>, error |-> error]

\* Option<serde_json::Value> handed to NormalisingString::parse_from_json.
JsonText(chars) == [t |-> "string", chars |-> chars]
NormalisingInputs ==
    {[t |-> "absent", chars |-> <<>>], [t |-> "null", chars |-> <<>>],
     [t |-> "number", chars |-> <<>>]}
    \cup {JsonText(v) : v \in SeqsUpTo(Chars, MaxChars)}

\* A parse_from_json that checks the length of the normalised form only.
normalising_parse_normalised_only(value, MIN, MAX) ==
    IF value.t = "absent"
    THEN TErr("Expected type 'String' got null")
    ELSE IF value.t # "string"
    THEN TErr("Expected type 'String' got")
    ELSE LET slf == NormalisingString_from(value.chars)
         IN  IF str_len(slf.normalised) < MIN
             THEN TErr("Normalised string value is bellow the minimum length threshold")
             ELSE IF str_len(slf.normalised) > MAX
             THEN TErr("Normalised string value is above the maximum length threshold")
             ELSE TOk(slf)

\* NormalisingString::<MIN, MAX, _>::parse_from_json(value).
normalising_parse_from_json(value, MIN, MAX) ==
    IF value.t = "absent"
    THEN TErr("Expected type 'String' got null")
    ELSE IF value.t # "string"
    THEN TErr("Expected type 'String' got")
    ELSE LET slf == NormalisingString_from(value.chars)
         IN  IF str_len(slf.normalised) < MIN
             THEN TErr("Normalised string value is bellow the minimum length threshold")
             ELSE IF str_len(slf.normalised) > MAX
             THEN TErr("Normalised string value is above the maximum length threshold")
             ELSE IF str_len(slf.real) < MIN
             THEN TErr("Raw string value is bellow the minimum length threshold")
             ELSE IF str_len(slf.real) > MAX
             THEN TErr("Raw string value is above the maximum length threshold")
             ELSE TOk(slf)

\* NormalisingString::<MIN, MAX, _>::parse_from_json is called.
NormalisingParse ==
    \E value \in NormalisingInputs : \E MIN, MAX \in 0..MaxThreshold :
        /\ tOp = "none"
        /\ tOp' = "NormalisingString::parse_from_json"
        /\ tIn' = [value |-> value, MIN |-> MIN, MAX |-> MAX]
        /\ tOut' = normalising_parse_from_json(value, MIN, MAX)
        /\ UNCHANGED << storeVars, codecVars >>

(***************************************************************************)
(* src/types/url.rs.  A URL text is held by its syntactic parts:           *)
(* scheme ":" ["//"] [username [":" password] "@"] host.                   *)
(***************************************************************************)
UrlText(scheme, slashes, username, password, host) ==
    [scheme |-> scheme, slashes |-> slashes, username |-> username,
     password |-> password, host |-> host]

\* The domains the constraints name, and their "www." forms.
TwitterDomains == {"twitter.com", "www.twitter.com"}
GitHubDomains ==
    {"github.com", "gitlab.com", "bitbucket.org",
     "www.github.com", "www.gitlab.com", "www.bitbucket.org"}
InstagramDomains == {"instagram.com", "www.instagram.com"}

\* The texts handed to the URL types: with and without a scheme, special and
\* other schemes, with and without "//", credentials and host, the host a
\* name in either letter case or an IPv4 address.
UrlSchemes == {"", "http", "https", "HTTPS", "ftp", "javascript", "mailto"}
UrlHosts ==
    TwitterDomains \cup GitHubDomains \cup InstagramDomains
    \cup {"", "discordlist.gg", "GitHub.com", "127.0.0.1"}
UrlTexts ==
    {UrlText(scheme, slashes, username, password, host) :
        scheme \in UrlSchemes, slashes \in BOOLEAN, username \in {"", "user"},
        password \in {<<>>, << "pw" >>}, host \in UrlHosts}

\* The lower-case form the URL parser gives the scheme and a special host.
url_lowercase(s) ==
    CASE s = "HTTPS" -> "https"
      [] s = "GitHub.com" -> "github.com"
      [] OTHER -> s

\* The schemes the URL standard calls special: always hierarchical.
is_special(scheme) == scheme \in {"http", "https", "ftp"}

\* url::Host of a special scheme: an IPv4 address or a lower-cased domain.
parse_host(host) ==
    IF host = "127.0.0.1"
    THEN [kind |-> "Ipv4", name |-> host]
    ELSE [kind |-> "Domain", name |-> url_lowercase(host)]

\* Url::from_str(s): Err without a scheme and for a special scheme with an
\* empty host; a text without "//" in a scheme that is not special is an
\* opaque path (cannot be a base, no host and no credentials).
Url_from_str(s) ==
    LET scheme == url_lowercase(s.scheme)
    IN  IF s.scheme = ""
        THEN TErr("relative URL without a base")
        ELSE IF is_special(scheme) \/ s.slashes
        THEN IF s.host = ""
             THEN TErr("empty host")
             ELSE TOk([scheme |-> scheme,
                       username |-> s.username,
                       password |-> s.password,
                       cannot_be_a_base |-> FALSE,
                       host |-> IF is_special(scheme)
                                THEN parse_host(s.host)
                                ELSE [kind |-> "Domain", name |-> s.host]])
        ELSE TOk([scheme |-> scheme,
                  username |-> "",
                  password |-> <<>>,
                  cannot_be_a_base |-> TRUE,
                  host |-> [kind |-> "None", name |-> ""]])

\* Url::domain: Some(name) for a domain host, None for an address or no host.
domain(url) == IF url.host.kind = "Domain" THEN << url.host.name >> ELSE <<>>

\* An is_valid_url that lets credentials through.
is_valid_url_with_credentials(url) ==
    /\ (url.scheme = "http" \/ url.scheme = "https")
    /\ ~url.cannot_be_a_base
    /\ domain(url) # <<>>

\* is_valid_url.
is_valid_url(url) ==
    /\ (url.scheme = "http" \/ url.scheme = "https")
    /\ url.username = ""
    /\ url.password = <<>>
    /\ ~url.cannot_be_a_base
    /\ domain(url) # <<>>

\* impl FromStr for DiscordUrl.
discord_url_from_str(s) ==
    LET url == Url_from_str(s)
    IN  IF url.tag = "Err"
        THEN url
        ELSE IF ~is_valid_url(url.value)
        THEN TErr("Invalid url provided.")
        ELSE TOk(url.value)

\* impl ParseFromJSON for DiscordUrl.
discord_url_parse_from_json(value) ==
    IF value.t = "absent"
    THEN TErr("Invalid url provided.")
    ELSE IF value.text # <<>>
    THEN LET url == Url_from_str(value.text[1])
         IN  IF url.tag = "Err"
             THEN url
             ELSE IF ~is_valid_url(url.value)
             THEN TErr("Invalid url provided.")
             ELSE TOk(url.value)
    ELSE TErr("Invalid url provided.")

\* impl FromCqlVal<CqlValue> for DiscordUrl.
discord_url_from_cql(cql_val) ==
    IF cql_val.text # <<>>
    THEN LET r == discord_url_from_str(cql_val.text[1])
         IN  IF r.tag = "Err" THEN TErr("BadCqlType") ELSE r
    ELSE TErr("BadCqlType")

\* The values handed to DiscordUrl::parse_from_json and ::from_cql.
UrlJsonInputs ==
    {[t |-> t, text |-> <<>>] : t \in {"absent", "null", "number"}}
    \cup {[t |-> "string", text |-> << s >>] : s \in UrlTexts}
UrlCqlInputs ==
    {[t |-> "Int", text |-> <<>>]}
    \cup {[t |-> "Text", text |-> << s >>] : s \in UrlTexts}

\* DiscordUrl::from_str is called.
DiscordUrlFromStr ==
    \E s \in UrlTexts :
        /\ tOp = "none"
        /\ tOp' = "DiscordUrl::from_str"
        /\ tIn' = [text |-> << s >>]
        /\ tOut' = discord_url_from_str(s)
        /\ UNCHANGED << storeVars, codecVars >>

\* DiscordUrl::parse_from_json is called.
DiscordUrlParseFromJson ==
    \E value \in UrlJsonInputs :
        /\ tOp = "none"
        /\ tOp' = "DiscordUrl::parse_from_json"
        /\ tIn' = [text |-> value.text]
        /\ tOut' = discord_url_parse_from_json(value)
        /\ UNCHANGED << storeVars, codecVars >>

\* DiscordUrl::from_cql is called.
DiscordUrlFromCql ==
    \E cql_val \in UrlCqlInputs :
        /\ tOp = "none"
        /\ tOp' = "DiscordUrl::from_cql"
        /\ tIn' = [text |-> cql_val.text]
        /\ tOut' = discord_url_from_cql(cql_val)
        /\ UNCHANGED << storeVars, codecVars >>

\* constraints::twitter_url.
twitter_url(url) ==
    IF domain(url) # <<>> THEN domain(url)[1] \in TwitterDomains ELSE FALSE

\* A github_url that knows the bare domains only.
github_url_bare(url) ==
    IF domain(url) # <<>>
    THEN domain(url)[1] \in {"github.com", "gitlab.com", "bitbucket.org"}
    ELSE FALSE

\* constraints::github_url.
github_url(url) ==
    IF domain(url) # <<>> THEN domain(url)[1] \in GitHubDomains ELSE FALSE

\* constraints::instagram_url.
instagram_url(url) ==
    IF domain(url) # <<>> THEN domain(url)[1] \in InstagramDomains ELSE FALSE

\* The types made by constraint!(..): TwitterUrl, GitHubUrl, InstagramUrl.
Constraints == {"TwitterUrl", "GitHubUrl", "InstagramUrl"}

\* <T as ConstrainedUrl>::is_valid(url).
ConstrainedUrl_is_valid(T, url) ==
    CASE T = "TwitterUrl" -> twitter_url(url)
      [] T = "GitHubUrl" -> github_url(url)
      [] T = "InstagramUrl" -> instagram_url(url)

\* impl FromStr for ConstrainedDiscordUrl<T>.
constrained_from_str(T, s) ==
    LET slf == discord_url_from_str(s)
    IN  IF slf.tag = "Err"
        THEN slf
        ELSE IF ~ConstrainedUrl_is_valid(T, slf.value)
        THEN TErr("Invalid url provided.")
        ELSE TOk(slf.value)

\* ConstrainedDiscordUrl::<T>::from_str is called.
ConstrainedFromStr ==
    \E T \in Constraints : \E s \in UrlTexts :
        /\ tOp = "none"
        /\ tOp' = "ConstrainedDiscordUrl::from_str"
        /\ tIn' = [text |-> << s >>, T |-> T]
        /\ tOut' = constrained_from_str(T, s)
        /\ UNCHANGED << storeVars, codecVars >>

(***************************************************************************)
(* src/types/integer.rs.  A number is written as a sign and its decimal    *)
(* digits; an i64 is held as four 16-bit limbs in two's complement, least  *)
(* significant first, so that `v as i32` is the value of its low two.      *)
(***************************************************************************)
I32_MAX == 2147483647
I32_MIN == -I32_MAX - 1
LimbBase == 65536

\* The decimal numerals of the inputs: around the limits of i32, u32, i64
\* and u64.
Numerals ==
    {<< 0 >>,
     << 7 >>,
     << 2, 1, 4, 7, 4, 8, 3, 6, 4, 7 >>,
     << 2, 1, 4, 7, 4, 8, 3, 6, 4, 8 >>,
     << 2, 1, 4, 7, 4, 8, 3, 6, 4, 9 >>,
     << 4, 2, 9, 4, 9, 6, 7, 2, 9, 5 >>,
     << 4, 2, 9, 4, 9, 6, 7, 2, 9, 6 >>,
     << 4, 2, 9, 4, 9, 6, 7, 3, 0, 1 >>,
     << 9, 2, 2, 3, 3, 7, 2, 0, 3, 6, 8, 5, 4, 7, 7, 5, 8, 0, 7 >>,
     << 9, 2, 2, 3, 3, 7, 2, 0, 3, 6, 8, 5, 4, 7, 7, 5, 8, 0, 8 >>,
     << 9, 2, 2, 3, 3, 7, 2, 0, 3, 6, 8, 5, 4, 7, 7, 5, 8, 0, 9 >>,
     << 1, 8, 4, 4, 6, 7, 4, 4, 0, 7, 3, 7, 0, 9, 5, 5, 1, 6, 1, 5 >>,
     << 1, 8, 4, 4, 6, 7, 4, 4, 0, 7, 3, 7, 0, 9, 5, 5, 1, 6, 1, 6 >>}

\* A text: sign, digits, and what follows the digits.
NumText(sign, digits, tail) == [sign |-> sign, digits |-> digits, tail |-> tail]
IntTexts ==
    {NumText(sign, digits, tail) :
        sign \in {"", "-"}, digits \in Numerals \cup {<<>>}, tail \in {"", "x"}}

\* The four limbs of 10 * limbs + d and whether the result left 64 bits.
mul10_add(limbs, d) ==
    LET t1 == limbs[1] * 10 + d
        t2 == limbs[2] * 10 + (t1 \div LimbBase)
        t3 == limbs[3] * 10 + (t2 \div LimbBase)
        t4 == limbs[4] * 10 + (t3 \div LimbBase)
    IN  [limbs |-> << t1 % LimbBase, t2 % LimbBase, t3 % LimbBase, t4 % LimbBase >>,
         overflow |-> t4 \div LimbBase > 0]

\* The unsigned 64-bit value of a run of digits, most significant first.
magnitude(digits) ==
    LET RECURSIVE Go(_, _, _)
        Go(i, limbs, overflow) ==
            IF i > Len(digits)
            THEN [limbs |-> limbs, overflow |-> overflow]
            ELSE LET n == mul10_add(limbs, digits[i])
                 IN  Go(i + 1, n.limbs, overflow \/ n.overflow)
    IN  Go(1, << 0, 0, 0, 0 >>, FALSE)

\* i64 negation in two's complement: invert the limbs and add one.
wrapping_neg(limbs) ==
    LET t1 == (LimbBase - 1 - limbs[1]) + 1
        t2 == (LimbBase - 1 - limbs[2]) + (t1 \div LimbBase)
        t3 == (LimbBase - 1 - limbs[3]) + (t2 \div LimbBase)
        t4 == (LimbBase - 1 - limbs[4]) + (t3 \div LimbBase)
    IN  << t1 % LimbBase, t2 % LimbBase, t3 % LimbBase, t4 % LimbBase >>

\* The JSON and serde integers: a numeral, negative ones without "-0".
JsonInt(sign, digits) == [t |-> "integer", text |-> NumText(sign, digits, "")]
JsonStr(text) == [t |-> "string", text |-> text]
IntJsonInputs ==
    {[t |-> t, text |-> NumText("", <<>>, "")] : t \in {"absent", "null", "float"}}
    \cup {JsonInt("", digits) : digits \in Numerals}
    \cup {JsonInt("-", digits) : digits \in Numerals \ {<< 0 >>}}
    \cup {JsonStr(text) : text \in IntTexts}

\* Value::as_i64 and the i64 variant of PossibleInt: Some(limbs) for an
\* integer within the range of i64, None (the empty sequence) otherwise.
as_i64(value) ==
    IF value.t # "integer"
    THEN <<>>
    ELSE LET m == magnitude(value.text.digits)
             top == LimbBase \div 2
         IN  IF m.overflow
             THEN <<>>
             ELSE IF value.text.sign = ""
             THEN IF m.limbs[4] < top THEN << m.limbs >> ELSE <<>>
             ELSE IF m.limbs[4] < top \/ m.limbs = << 0, 0, 0, top >>
             THEN << wrapping_neg(m.limbs) >>
             ELSE <<>>

\* A cast that saturates at the limits of i32.
as_i32_saturating(v) ==
    IF v[3] = 0 /\ v[4] = 0 /\ v[2] < LimbBase \div 2
    THEN v[2] * LimbBase + v[1]
    ELSE IF v[3] = LimbBase - 1 /\ v[4] = LimbBase - 1 /\ v[2] >= LimbBase \div 2
    THEN (v[2] - LimbBase) * LimbBase + v[1]
    ELSE IF v[4] >= LimbBase \div 2 THEN I32_MIN ELSE I32_MAX

\* `v as i32` for v: i64: the low 32 bits, read as a signed number.
as_i32(v) ==
    IF v[2] >= LimbBase \div 2
    THEN (v[2] - LimbBase) * LimbBase + v[1]
    ELSE v[2] * LimbBase + v[1]

\* str::parse::<i32>: an optional sign and at least one digit, every step
\* of the accumulation checked against the range of i32.
parse_i32(s) ==
    LET RECURSIVE Go(_, _)
        Go(i, acc) ==
            IF i > Len(s.digits)
            THEN IF s.tail # "" THEN TErr("invalid digit found in string") ELSE TOk(acc)
            ELSE LET d == s.digits[i]
                 IN  IF s.sign = "-"
                     THEN IF acc < (I32_MIN + d + 9) \div 10
                          THEN TErr("number too small to fit in target type")
                          ELSE Go(i + 1, acc * 10 - d)
                     ELSE IF acc > (I32_MAX - d) \div 10
                          THEN TErr("number too large to fit in target type")
                          ELSE Go(i + 1, acc * 10 + d)
    IN  IF s.digits = <<>>
        THEN IF s.sign = "" /\ s.tail = ""
             THEN TErr("cannot parse integer from empty string")
             ELSE TErr("invalid digit found in string")
        ELSE Go(1, 0)

\* impl FromStr for JsSafeInt.
jssafeint_from_str(s) == parse_i32(s)

\* impl ParseFromJSON for JsSafeInt.
jssafeint_parse_from_json(value) ==
    IF value.t = "absent"
    THEN TErr("cannot convert value into integer")
    ELSE IF value.t = "string"
    THEN jssafeint_from_str(value.text)
    ELSE IF as_i64(value) # <<>>
    THEN TOk(as_i32(as_i64(value)[1]))
    ELSE TErr("cannot convert value into integer")

\* impl Deserialize for JsSafeInt, through the untagged PossibleInt.
jssafeint_deserialize(value) ==
    IF as_i64(value) # <<>>
    THEN TOk(as_i32(as_i64(value)[1]))
    ELSE IF value.t = "string"
    THEN parse_i32(value.text)
    ELSE TErr("data did not match any variant of untagged enum PossibleInt")

\* JsSafeInt::parse_from_json is called.
JsSafeIntParseFromJson ==
    \E value \in IntJsonInputs :
        /\ tOp = "none"
        /\ tOp' = "JsSafeInt::parse_from_json"
        /\ tIn' = value
        /\ tOut' = jssafeint_parse_from_json(value)
        /\ UNCHANGED << storeVars, codecVars >>

\* JsSafeInt::deserialize is called.
JsSafeIntDeserialize ==
    \E value \in IntJsonInputs \ {[t |-> "absent", text |-> NumText("", <<>>, "")]} :
        /\ tOp = "none"
        /\ tOp' = "JsSafeInt::deserialize"
        /\ tIn' = value
        /\ tOut' = jssafeint_deserialize(value)
        /\ UNCHANGED << storeVars, codecVars >>

\* JsSafeInt::from_str is called.
JsSafeIntFromStr ==
    \E s \in IntTexts :
        /\ tOp = "none"
        /\ tOp' = "JsSafeInt::from_str"
        /\ tIn' = JsonStr(s)
        /\ tOut' = jssafeint_from_str(s)
        /\ UNCHANGED << storeVars, codecVars >>

\* The functions of src/types, one call per behaviour.
NextTypes ==
    \/ NormalisingParse
    \/ DiscordUrlFromStr
    \/ DiscordUrlParseFromJson
    \/ DiscordUrlFromCql
    \/ ConstrainedFromStr
    \/ JsSafeIntParseFromJson
    \/ JsSafeIntDeserialize
    \/ JsSafeIntFromStr

\* The stores and the codec untouched, one function of src/types applied.
InitTyped == InitStore /\ entity = "bot" /\ InitCodec /\ InitTypes

SpecTypes == InitTyped /\ [][NextTypes]_vars

\* n lies within [lo, hi].
Within(n, lo, hi) == lo <= n /\ n <= hi

(***************************************************************************)
(* C23: NormalisingString::parse_from_json accepts a value exactly when it *)
(* is a JSON string whose trimmed raw form and whose trimmed               *)
(* ASCII-normalised form both have a length within [MIN, MAX]; it returns  *)
(* an error when either length is below MIN or above MAX and when the      *)
(* value is null or not a string.                                          *)
(***************************************************************************)
C23_BothLengthsWithinBounds ==
    tOp = "NormalisingString::parse_from_json" =>
        LET value == tIn.value
            raw == str_len(trim(value.chars))
            norm == str_len(trim(deunicode(value.chars)))
        IN  /\ (tOut.tag = "Ok") <=>
                   /\ value.t = "string"
                   /\ Within(raw, tIn.MIN, tIn.MAX)
                   /\ Within(norm, tIn.MIN, tIn.MAX)
            /\ tOut.tag \in {"Ok", "Err"}
            /\ tOut.tag = "Ok" =>
                   /\ tOut.value.real = trim(value.chars)
                   /\ tOut.value.normalised = trim(deunicode(value.chars))

\* A string was rejected for its raw length although its normalised form is
\* within the bounds.
C23_Witness ==
    /\ tOp = "NormalisingString::parse_from_json"
    /\ tIn.value.t = "string"
    /\ Within(str_len(trim(deunicode(tIn.value.chars))), tIn.MIN, tIn.MAX)
    /\ tOut = TErr("Raw string value is above the maximum length threshold")

\* One of the three parsing entry points of DiscordUrl has returned.
DiscordUrlReturned ==
    tOp \in {"DiscordUrl::from_str", "DiscordUrl::parse_from_json",
             "DiscordUrl::from_cql"}

(***************************************************************************)
(* C24: DiscordUrl::from_str, parse_from_json and from_cql reject every    *)
(* URL whose scheme is not http or https, and every URL with a username,   *)
(* a password, no domain, or that cannot be a base; only URLs that pass    *)
(* all of these checks are accepted, and every URL passing them is.        *)
(***************************************************************************)
C24_OnlyPlainHttpUrlsAccepted ==
    (DiscordUrlReturned /\ tIn.text # <<>>) =>
        LET parsed == Url_from_str(tIn.text[1])
            url == parsed.value
        IN  /\ parsed.tag = "Err" => tOut.tag = "Err"
            /\ parsed.tag = "Ok" =>
                /\ url.scheme \notin {"http", "https"} => tOut.tag = "Err"
                /\ url.username # "" => tOut.tag = "Err"
                /\ url.password # <<>> => tOut.tag = "Err"
                /\ domain(url) = <<>> => tOut.tag = "Err"
                /\ url.cannot_be_a_base => tOut.tag = "Err"
                /\ ( /\ url.scheme \in {"http", "https"}
                     /\ url.username = ""
                     /\ url.password = <<>>
                     /\ domain(url) # <<>>
                     /\ ~url.cannot_be_a_base ) => tOut = TOk(url)

\* from_cql refused an https URL of a plain domain because it carries a
\* password and nothing else is wrong with it.
C24_Witness ==
    /\ tOp = "DiscordUrl::from_cql"
    /\ tIn.text = << UrlText("https", TRUE, "", << "pw" >>, "github.com") >>
    /\ tOut.tag = "Err"

\* The allow-list the constraint T is documented with.
AllowList(T) ==
    CASE T = "TwitterUrl" -> {"twitter.com", "www.twitter.com"}
      [] T = "GitHubUrl" ->
            {"github.com", "gitlab.com", "bitbucket.org",
             "www.github.com", "www.gitlab.com", "www.bitbucket.org"}
      [] T = "InstagramUrl" -> {"instagram.com", "www.instagram.com"}

(***************************************************************************)
(* C25: ConstrainedDiscordUrl<T>::from_str accepts a URL if and only if    *)
(* DiscordUrl accepts it and its domain is in the allow-list of T          *)
(* (TwitterUrl: twitter.com, www.twitter.com; GitHubUrl: github.com,       *)
(* gitlab.com, bitbucket.org and their www. forms; InstagramUrl:           *)
(* instagram.com, www.instagram.com); any other valid http(s) URL is       *)
(* rejected.                                                               *)
(***************************************************************************)
C25_ConstrainedIffAllowListed ==
    tOp = "ConstrainedDiscordUrl::from_str" =>
        LET plain == discord_url_from_str(tIn.text[1])
        IN  /\ (tOut.tag = "Ok") <=>
                   /\ plain.tag = "Ok"
                   /\ plain.value.host.kind = "Domain"
                   /\ plain.value.host.name \in AllowList(tIn.T)
            /\ tOut.tag \in {"Ok", "Err"}
            /\ tOut.tag = "Ok" => tOut.value = plain.value

\* The GitHub constraint accepted the www. form of one of its domains.
C25_Witness ==
    /\ tOp = "ConstrainedDiscordUrl::from_str"
    /\ tIn.T = "GitHubUrl"
    /\ tIn.text = << UrlText("https", TRUE, "", <<>>, "www.gitlab.com") >>
    /\ tOut.tag = "Ok"

\* Decimal numerals without leading zeros, compared as numbers.
DecimalLess(a, b) ==
    \/ Len(a) < Len(b)
    \/ /\ Len(a) = Len(b)
       /\ \E i \in 1..Len(a) :
            /\ a[i] < b[i]
            /\ \A j \in 1..(i - 1) : a[j] = b[j]

\* The number written by the text lies within the range of the signed
\* integers whose largest value is written `most` (the smallest is
\* -(most + 1), written `least` without its sign).
InSigned(text, most, least) ==
    IF text.sign = "-"
    THEN ~DecimalLess(least, text.digits)
    ELSE ~DecimalLess(most, text.digits)
InI32(text) ==
    InSigned(text, << 2, 1, 4, 7, 4, 8, 3, 6, 4, 7 >>, << 2, 1, 4, 7, 4, 8, 3, 6, 4, 8 >>)
InI64(text) ==
    InSigned(text, << 9, 2, 2, 3, 3, 7, 2, 0, 3, 6, 8, 5, 4, 7, 7, 5, 8, 0, 7 >>,
             << 9, 2, 2, 3, 3, 7, 2, 0, 3, 6, 8, 5, 4, 7, 7, 5, 8, 0, 8 >>)

\* The number written by a text within the range of i32.
ValueOf(text) ==
    LET RECURSIVE Go(_, _)
        Go(i, acc) ==
            IF i > Len(text.digits)
            THEN acc
            ELSE Go(i + 1, acc * 10 + (IF text.sign = "-" THEN -1 ELSE 1) * text.digits[i])
    IN  Go(1, 0)

\* Long division of a numeral by a small number: remainder and quotient.
Remainder(digits, m) ==
    LET RECURSIVE Go(_, _)
        Go(i, rem) == IF i > Len(digits) THEN rem ELSE Go(i + 1, (rem * 10 + digits[i]) % m)
    IN  Go(1, 0)
Quotient(digits, m) ==
    LET RECURSIVE Go(_, _)
        Go(i, rem) ==
            IF i > Len(digits)
            THEN <<>>
            ELSE << (rem * 10 + digits[i]) \div m >> \o Go(i + 1, (rem * 10 + digits[i]) % m)
    IN  Go(1, 0)

\* r is the number written by the text modulo 2^32, taken into the range of
\* i32: both 16-bit halves of r agree with those of the number.
Low32Bits(r, text) ==
    LET lo == Remainder(text.digits, 65536)
        hi == Remainder(Quotient(text.digits, 65536), 65536)
        rlo == r % 65536
        rhi == (r \div 65536) % 65536
    IN  /\ -I32_MAX - 1 <= r /\ r <= I32_MAX
        /\ IF text.sign = "-"
           THEN /\ (rlo + lo) % 65536 = 0
                /\ (rhi + hi + ((rlo + lo) \div 65536)) % 65536 = 0
           ELSE rlo = lo /\ rhi = hi

\* A call of JsSafeInt has returned for an input that writes a number.
IntegerGiven ==
    /\ tOp \in {"JsSafeInt::parse_from_json", "JsSafeInt::deserialize"}
    /\ tIn.t = "integer"
StringGiven ==
    /\ tOp \in {"JsSafeInt::parse_from_json", "JsSafeInt::deserialize",
                "JsSafeInt::from_str"}
    /\ tIn.t = "string"
    /\ tIn.text.digits # <<>>
    /\ tIn.text.tail = ""

(***************************************************************************)
(* C29: a JSON or serde integer outside the 32-bit signed range is         *)
(* accepted and wrapped to its low 32 bits, whereas the same value given   *)
(* as a string is rejected with a parse error; values inside the i32 range *)
(* are preserved unchanged by both paths.                                  *)
(***************************************************************************)
C29_OutOfRangeWrappedOrRejected ==
    /\ IntegerGiven =>
          IF InI32(tIn.text)
          THEN tOut = TOk(ValueOf(tIn.text))
          ELSE tOut.tag = "Ok" /\ Low32Bits(tOut.value, tIn.text)
    /\ StringGiven =>
          IF InI32(tIn.text)
          THEN tOut = TOk(ValueOf(tIn.text))
          ELSE tOut.tag = "Err"

(***************************************************************************)
(* C29, amended: the integer is wrapped when it lies outside the range of  *)
(* i32 and within that of i64; an integer beyond i64 is rejected, as is    *)
(* every out-of-range value given as a string.                             *)
(***************************************************************************)
C29_WrappedWithinI64 ==
    /\ IntegerGiven =>
          IF InI32(tIn.text)
          THEN tOut = TOk(ValueOf(tIn.text))
          ELSE IF InI64(tIn.text)
          THEN tOut.tag = "Ok" /\ Low32Bits(tOut.value, tIn.text)
          ELSE tOut.tag = "Err"
    /\ StringGiven =>
          IF InI32(tIn.text)
          THEN tOut = TOk(ValueOf(tIn.text))
          ELSE tOut.tag = "Err"

\* The JSON integer 4294967301 (2^32 + 5) was accepted as 5.
C29_Witness ==
    /\ tOp = "JsSafeInt::parse_from_json"
    /\ tIn = JsonInt("", << 4, 2, 9, 4, 9, 6, 7, 3, 0, 1 >>)
    /\ tOut = TOk(5)

\* A step of a read-path call of reader r: its start, the initialisation of
\* the cell on first use, the load, every lookup, the return and the drop.
ReadStep(r) ==
    \/ BotParseFromJson(r) \/ PackParseFromJson(r)
    \/ BotFromRaw(r) \/ BotFromCql(r) \/ PackFromRaw(r) \/ PackFromCql(r)
    \/ BotDeserialize(r) \/ PackDeserialize(r) \/ TagsDefault(r)
    \/ GetOrInit(r) \/ InitCell(r) \/ Load(r)
    \/ BotLookup(r) \/ PackLookup(r) \/ BotFilter(r) \/ PackFilter(r)
    \/ DropTags(r)

(***************************************************************************)
(* C26: no step of a read-path call (parse_from_json, from_raw, from_cql,  *)
(* deserialize, default), whether the call succeeds or fails, changes the  *)
(* registry either store holds or the sequence of published registries;    *)
(* every change of them is the store of a set_bot_tags or set_pack_tags.   *)
(***************************************************************************)
C26_ReadPathLeavesStore ==
    [][ /\ (\E r \in Readers : ReadStep(r)) =>
               (swap' = swap /\ history' = history)
        /\ (swap' # swap \/ history' # history) =>
               \E w \in Publishers : Store(w) ]_vars

\* A call failed on a name unknown to the non-empty registry it had loaded,
\* and the store still holds that registry, the last one published.
C26_Witness ==
    \E r \in Readers :
        /\ pc[r] = "done"
        /\ result[r].tag = "Err"
        /\ snap[r] # EmptyRegistry
        /\ history[kind[r]] # <<>>
        /\ swap[kind[r]] = snap[r]
        /\ swap[kind[r]] = history[kind[r]][Len(history[kind[r]])]

\* Reader r holds a collection it has built: its call has returned Ok and
\* the value has not been dropped.
Holds(r) == pc[r] = "done" /\ result[r].tag = "Ok"

(***************************************************************************)
(* C27: a collection that has been built is unaffected by later publishes: *)
(* as long as it is held, its names and categories stay those validated    *)
(* against the snapshot of its construction, whatever is stored meanwhile  *)
(* (held collections are never validated again).                           *)
(***************************************************************************)
C27_HeldCollectionsKeep ==
    [][ \A r \in Readers :
            (Holds(r) /\ pc'[r] = "done") =>
                /\ result'[r] = result[r]
                /\ snap'[r] = snap[r] ]_vars

\* A held collection has a name that was a key of the snapshot it was built
\* from and is not a key of the registry published since.
C27_Witness ==
    \E r \in Readers :
        /\ Holds(r)
        /\ op[r] = "parse_from_json"
        /\ \E i \in 1..Len(result[r].inner) :
              /\ result[r].inner[i].name \in DOMAIN snap[r]
              /\ result[r].inner[i].name \notin DOMAIN swap[kind[r]]
        /\ loadIdx[r] < Len(history[kind[r]])

\* No publisher is inside a set_*_tags call on store k.
PublishesFinished(k) == \A w \in Publishers : pc[w] = "idle" \/ kind[w] # k

(***************************************************************************)
(* C28: with several publishers running concurrently, each store holds in  *)
(* every state one whole registry among those handed to set_*_tags and     *)
(* stored so far, merged with no other, or the initial empty one as long   *)
(* as no store has been applied; and when no publish is in progress the    *)
(* registry held is the one of the store applied last.                     *)
(***************************************************************************)
C28_ConcurrentPublishers ==
    \A k \in Kinds :
        /\ swap[k] \in {EmptyRegistry} \cup Registries(k)
        /\ swap[k] \in Published(k)
        /\ history[k] = <<>> => swap[k] = EmptyRegistry
        /\ (PublishesFinished(k) /\ history[k] # <<>>) =>
               swap[k] = history[k][Len(history[k])]

\* Two publishers are inside set_*_tags on the same store at once, both
\* about to store, each with a registry of its own.
C28_Witness ==
    /\ pc["w1"] = "store"
    /\ pc["w2"] = "store"
    /\ kind["w1"] = kind["w2"]
    /\ pend["w1"] # pend["w2"]
    /\ cellState[kind["w1"]] = "ready"

=============================================================================
